---- MODULE Spec2Model ----
(***************************************************************************)
(* FitPlan Pro workout backend: the request handlers of api/routes         *)
(* (workouts.py, logs.py, progress.py) over the tables declared in         *)
(* models/.  One action per handler; a handler runs in one database        *)
(* session and commits at most once.  The steps of the handlers are also   *)
(* interleaved, statement by statement, over the sessions of the requests  *)
(* in flight (database/connection.py), and rows are deleted under the      *)
(* ondelete rules of the foreign keys (models/).                           *)
(***************************************************************************)
EXTENDS Integers, Sequences, FiniteSets, TLC

VARIABLES
    users,              \* table users: the ids of its rows
    goals,              \* table goals
    equipment,          \* table equipment
    db,                 \* the sessions of the requests in flight (get_db)
    exercises,          \* table exercises (the catalog), in id order
    workouts,           \* table workouts, in insertion order
    workout_exercises,  \* table workout_exercises, in insertion order
    workout_logs,       \* table workout_logs, in insertion order
    exercise_sets,      \* table exercise_sets, in insertion order
    now,                \* the store's clock (func.now(), datetime.utcnow()), in days
    last,               \* the last request served and its response
    logged              \* history: the workouts a logSession call has succeeded for

vars == <<users, goals, equipment, db, exercises, workouts, workout_exercises, workout_logs,
          exercise_sets, now, last, logged>>

\* What no request handler writes, apart from the catalog: the tables users,
\* goals and equipment, and the sessions of other requests.
unwritten == <<users, goals, equipment, db>>

\* The rows the API writes.
store == <<workouts, workout_exercises, workout_logs, exercise_sets>>

----------------------------------------------------------------------------
\* Bounds of the model.

MaxWorkouts == 2
MaxLogs == 2
MaxSets == 3
MaxNow == 25

----------------------------------------------------------------------------
\* Nullable values: None is Python's None / SQL NULL, Some(x) a value.

None == <<>>
Some(x) == <<x>>
Val(o) == o[1]

\* Python truthiness of an Optional[int] / Optional[Decimal]: None and 0 are falsy.
TruthyNum(o) == o # None /\ Val(o) # 0

\* Python truthiness of an Optional[str]: None and "" are falsy.
TruthyStr(o) == o # None /\ Val(o) # ""

\* dict.get(key, default) on a request dict (a function from its keys).
Get(d, k, default) == IF k \in DOMAIN d THEN d[k] ELSE default

Range(s) == {s[i] : i \in DOMAIN s}

Min(a, b) == IF a < b THEN a ELSE b
Max(a, b) == IF a > b THEN a ELSE b

RECURSIVE SumSeq(_)
SumSeq(s) == IF s = <<>> THEN 0 ELSE Head(s) + SumSeq(Tail(s))

\* The ORM's INSERT of an attribute: a None attribute of a column that
\* declares a default is left out of the statement, so the default is stored.
ColumnDefault(value, default) == IF value = None THEN Some(default) ELSE value

----------------------------------------------------------------------------
\* Catalog data: the API never writes users, equipment or exercises.

\* Rows of table users (by id); "u9" is an id of no user.
UserRows == {"u1", "u2"}
UserIds == UserRows \cup {"u9"}

\* Rows of table goals.
GoalRows == {[id |-> 1, user_id |-> "u1"], [id |-> 2, user_id |-> "u2"]}

\* Rows of table equipment.
EquipmentRows == {[id |-> 1, name |-> "Barbell"], [id |-> 2, name |-> "Dumbbell"]}

Exercise(id, name, muscle, equipment_id) ==
    [id |-> id, name |-> name, primary_muscle |-> muscle, equipment_id |-> equipment_id]

\* A catalog of three exercises in two muscle groups, none of them bodyweight.
CatalogNarrow == <<
    Exercise(1, "Bench Press", Some("chest"), Some(1)),
    Exercise(2, "Dumbbell Fly", Some("chest"), Some(2)),
    Exercise(3, "Farmer Walk", None, Some(1)) >>

\* A catalog of seven exercises in six muscle groups, three of them bodyweight.
CatalogWide == <<
    Exercise(1, "Bench Press", Some("chest"), Some(1)),
    Exercise(2, "Push Up", Some("chest"), None),
    Exercise(3, "Dumbbell Row", Some("back"), Some(2)),
    Exercise(4, "Squat", Some("legs"), None),
    Exercise(5, "Lateral Raise", Some("shoulders"), Some(2)),
    Exercise(6, "Barbell Curl", Some("arms"), Some(1)),
    Exercise(7, "Plank", Some("core"), None) >>

\* A catalog of six exercises, two in each of three major groups.
CatalogPaired == <<
    Exercise(1, "Bench Press", Some("chest"), Some(1)),
    Exercise(2, "Push Up", Some("chest"), None),
    Exercise(3, "Dumbbell Row", Some("back"), Some(2)),
    Exercise(4, "Pull Up", Some("back"), None),
    Exercise(5, "Squat", Some("legs"), None),
    Exercise(6, "Deadlift", Some("legs"), Some(1)) >>

Catalogs == {CatalogNarrow, CatalogWide, CatalogPaired}

\* db.query(Exercise).filter(Exercise.id == exercise_id).first()
ExerciseById(id) == SelectSeq(exercises, LAMBDA ex : ex.id = id)

\* db.query(Workout).filter(Workout.id == workout_id).first()
WorkoutById(id) == SelectSeq(workouts, LAMBDA w : w.id = id)

----------------------------------------------------------------------------
\* Responses.

\* The failure classes of the error taxonomy, by HTTP status: HTTPException
\* 404 and 400, the 422 of request validation, and 500 for an exception that
\* escapes the handler.
ErrorKind(status) ==
    CASE status = 200 -> "ok"
      [] status = 404 -> "NotFound"
      [] status = 400 -> "InvalidArgument"
      [] status = 422 -> "InvalidArgument"
      [] OTHER -> "Unexpected"

Response(op, request, status, detail, body) ==
    [op |-> op, request |-> request, status |-> status, detail |-> detail, body |-> body]

----------------------------------------------------------------------------
\* POST /workouts/generate

valid_goals == {"strength", "hypertrophy", "endurance", "weight_loss", "general"}

\* str.lower() on the goal strings the requests carry.
lower(s) ==
    CASE s = "Strength" -> "strength"
      [] s = "HYPERTROPHY" -> "hypertrophy"
      [] s = "Cardio" -> "cardio"
      [] OTHER -> s

\* Mutant: the goal is not validated.
GoalIsValid_any(goal) == TRUE

\* goal in valid_goals
GoalIsValid(goal) == goal \in valid_goals

\* The equipment ids whose name is in the request's list.
equipment_ids(names) == {eq.id : eq \in {e \in equipment : e.name \in names}}

\* exercise_query.all(): the catalog, filtered when request.equipment is a
\* non-empty list.
FilteredExercises(request) ==
    IF request.equipment # None /\ Val(request.equipment) # {}
    THEN SelectSeq(exercises, LAMBDA ex :
            \/ (ex.equipment_id # None /\ Val(ex.equipment_id) \in equipment_ids(Val(request.equipment)))
            \/ ex.equipment_id = None)
    ELSE exercises

\* exercise.primary_muscle or "general"
MuscleOf(ex) == IF TruthyStr(ex.primary_muscle) THEN Val(ex.primary_muscle) ELSE "general"

\* muscle_groups: the exercises of each primary muscle, in query order.
MuscleGroups(exs) ==
    [m \in {MuscleOf(exs[i]) : i \in DOMAIN exs} |->
        SelectSeq(exs, LAMBDA ex : MuscleOf(ex) = m)]

\* Mutant: every goal gets the prescription of general.
Prescription_general(goal) == [target_sets |-> 3, target_reps |-> 10, rest_seconds |-> 90]

\* The sets/reps/rest fixed by the goal.
Prescription(goal) ==
    CASE goal = "strength" -> [target_sets |-> 5, target_reps |-> 5, rest_seconds |-> 180]
      [] goal = "hypertrophy" -> [target_sets |-> 4, target_reps |-> 10, rest_seconds |-> 90]
      [] goal = "endurance" -> [target_sets |-> 3, target_reps |-> 15, rest_seconds |-> 60]
      [] goal = "weight_loss" -> [target_sets |-> 3, target_reps |-> 12, rest_seconds |-> 45]
      [] OTHER -> [target_sets |-> 3, target_reps |-> 10, rest_seconds |-> 90]

\* random.sample(population, k): every ordering of every k distinct positions.
Sample(population, k) ==
    {[i \in 1..k |-> population[p[i]]] :
        p \in {q \in [1..k -> DOMAIN population] : \A i, j \in 1..k : i # j => q[i] # q[j]}}

\* Mutant: chest is not a major group.
major_groups_without_chest == <<"back", "legs", "shoulders", "arms">>

major_groups == <<"chest", "back", "legs", "shoulders", "arms">>

exercises_per_group(muscle_groups) == IF Cardinality(DOMAIN muscle_groups) > 5 THEN 1 ELSE 2

\* The loop over major_groups from position i on: the possible values of the
\* part of selected_exercises it appends.
RECURSIVE MajorSelections(_, _)
MajorSelections(muscle_groups, i) ==
    IF i > Len(major_groups) THEN {<<>>}
    ELSE LET muscle == major_groups[i]
             rest == MajorSelections(muscle_groups, i + 1)
         IN  IF muscle \in DOMAIN muscle_groups
             THEN {selected \o r :
                     selected \in Sample(muscle_groups[muscle],
                                         Min(exercises_per_group(muscle_groups),
                                             Len(muscle_groups[muscle]))),
                     r \in rest}
             ELSE rest

\* Mutant: the duration is ignored.
target_exercise_count_five(duration_minutes) == 5

target_exercise_count(duration_minutes) == Max(5, duration_minutes \div 10)

\* Mutant: the top-up samples from the whole filtered catalog.
remaining_exercises_unfiltered(exs, selected) == exs

\* remaining_exercises = [ex for ex in exercises if ex not in selected_exercises]
remaining_exercises(exs, selected) == SelectSeq(exs, LAMBDA ex : ex \notin Range(selected))

\* selected_exercises after the top-up to target_exercise_count.
WithAdditional(exs, selected, duration_minutes) ==
    LET remaining == remaining_exercises(exs, selected)
        target == target_exercise_count(duration_minutes)
    IN  IF Len(selected) < target /\ remaining # <<>>
        THEN {selected \o additional :
                additional \in Sample(remaining, Min(target - Len(selected), Len(remaining)))}
        ELSE {selected}

\* Every value selected_exercises can have when the workout is created.
Selections(exs, duration_minutes) ==
    UNION {WithAdditional(exs, selected, duration_minutes) :
            selected \in MajorSelections(MuscleGroups(exs), 1)}

NewWorkout(user_id, goal) ==
    [id |-> Len(workouts) + 1, user_id |-> user_id, goal |-> goal, created_at |-> now]

WorkoutExerciseRow(k, workout_id, exercise_id, target_sets, target_reps, rest_seconds) ==
    [id |-> Len(workout_exercises) + k, workout_id |-> workout_id, exercise_id |-> exercise_id,
     target_sets |-> target_sets, target_reps |-> target_reps,
     rest_seconds |-> ColumnDefault(rest_seconds, 90)]

\* Mutant: the minutes of one exercise are floored before they are added up.
GenerateDuration_per_exercise(n, p) ==
    n * ((p.target_sets * (p.target_reps * 3 + p.rest_seconds)) \div 60)

\* estimated_duration of generate_workout
GenerateDuration(n, p) == (n * p.target_sets * (p.target_reps * 3 + p.rest_seconds)) \div 60

generate_workout(request) ==
    /\ UNCHANGED <<unwritten, exercises, workout_logs, exercise_sets, now, logged>>
    /\ IF request.user_id \notin users
       THEN /\ last' = Response("generate", request, 404, "user_not_found", None)
            /\ UNCHANGED <<workouts, workout_exercises>>
       ELSE IF ~GoalIsValid(lower(request.goal))
       THEN /\ last' = Response("generate", request, 400, "invalid_goal", None)
            /\ UNCHANGED <<workouts, workout_exercises>>
       ELSE IF FilteredExercises(request) = <<>>
       THEN /\ last' = Response("generate", request, 400, "no_exercises", None)
            /\ UNCHANGED <<workouts, workout_exercises>>
       ELSE IF request.duration_minutes = None
       THEN \* None // 10 raises TypeError before anything is added to the session
            /\ last' = Response("generate", request, 500, "type_error", None)
            /\ UNCHANGED <<workouts, workout_exercises>>
       ELSE \E selected_exercises \in Selections(FilteredExercises(request), Val(request.duration_minutes)) :
            LET goal == lower(request.goal)
                p == Prescription(goal)
                workout == NewWorkout(request.user_id, goal)
                n == Len(selected_exercises)
                rows == [k \in 1..n |->
                            WorkoutExerciseRow(k, workout.id, selected_exercises[k].id,
                                Some(p.target_sets), Some(p.target_reps), Some(p.rest_seconds))]
                exercise_details == [k \in 1..n |->
                            [exercise_id |-> selected_exercises[k].id,
                             exercise_name |-> selected_exercises[k].name,
                             primary_muscle |-> selected_exercises[k].primary_muscle,
                             target_sets |-> p.target_sets,
                             target_reps |-> p.target_reps,
                             rest_seconds |-> p.rest_seconds]]
            IN  /\ Len(workouts) < MaxWorkouts
                /\ workouts' = Append(workouts, workout)
                /\ workout_exercises' = workout_exercises \o rows
                /\ last' = Response("generate", request, 200, "ok",
                             [workout_id |-> workout.id, goal |-> goal,
                              exercises |-> exercise_details,
                              estimated_duration |-> GenerateDuration(n, p)])

----------------------------------------------------------------------------
\* POST /workouts/custom

\* exercise_ids = [ex.get("exercise_id") for ex in request.exercises]
exercise_ids(request) ==
    [k \in DOMAIN request.exercises |-> Get(request.exercises[k], "exercise_id", None)]

\* db.query(Exercise).filter(Exercise.id.in_(exercise_ids)).all()
ExercisesIn(ids) == SelectSeq(exercises, LAMBDA ex : Some(ex.id) \in Range(ids))

\* Mutant: the request is refused only when none of its exercises is found.
ExercisesMissing_none_found(request) == ExercisesIn(exercise_ids(request)) = <<>>

\* len(exercises) != len(exercise_ids)
ExercisesMissing(request) ==
    Len(ExercisesIn(exercise_ids(request))) # Len(exercise_ids(request))

\* exercises_dict[ex_data["exercise_id"]] raises KeyError for an item whose id
\* is not among the exercises found.
LookupRaises(request) ==
    \E k \in DOMAIN request.exercises :
        \/ exercise_ids(request)[k] = None
        \/ ExerciseById(Val(exercise_ids(request)[k])) = <<>>

\* The attributes of the WorkoutExercise built for one request item.
CustomPrescription(ex_data) ==
    [target_sets |-> Get(ex_data, "target_sets", Some(3)),
     target_reps |-> Get(ex_data, "target_reps", Some(10)),
     rest_seconds |-> Get(ex_data, "rest_seconds", Some(90))]

\* ex["target_sets"] * (ex["target_reps"] * 3 + ex["rest_seconds"]) raises
\* TypeError when one of the three is None.
DurationRaises(details) ==
    \E k \in DOMAIN details :
        \/ details[k].target_sets = None
        \/ details[k].target_reps = None
        \/ details[k].rest_seconds = None

\* estimated_duration of create_custom_workout
CustomDuration(details) ==
    SumSeq([k \in DOMAIN details |->
        Val(details[k].target_sets) * (Val(details[k].target_reps) * 3 + Val(details[k].rest_seconds))])
    \div 60

create_custom_workout(request) ==
    /\ UNCHANGED <<unwritten, exercises, workout_logs, exercise_sets, now, logged>>
    /\ IF request.user_id \notin users
       THEN /\ last' = Response("createCustom", request, 404, "user_not_found", None)
            /\ UNCHANGED <<workouts, workout_exercises>>
       ELSE IF request.exercises = <<>>
       THEN /\ last' = Response("createCustom", request, 400, "no_exercises_given", None)
            /\ UNCHANGED <<workouts, workout_exercises>>
       ELSE IF ExercisesMissing(request)
       THEN /\ last' = Response("createCustom", request, 404, "exercise_not_found", None)
            /\ UNCHANGED <<workouts, workout_exercises>>
       ELSE IF LookupRaises(request)
       THEN \* KeyError before db.commit(): the session is closed without a commit
            /\ last' = Response("createCustom", request, 500, "key_error", None)
            /\ UNCHANGED <<workouts, workout_exercises>>
       ELSE LET workout == NewWorkout(request.user_id, request.goal)
                n == Len(request.exercises)
                id_of(k) == Val(request.exercises[k].exercise_id)
                rows == [k \in 1..n |->
                            LET p == CustomPrescription(request.exercises[k])
                            IN  WorkoutExerciseRow(k, workout.id, id_of(k),
                                    p.target_sets, p.target_reps, p.rest_seconds)]
                exercise_details == [k \in 1..n |->
                            LET p == CustomPrescription(request.exercises[k])
                                exercise == ExerciseById(id_of(k))[1]
                            IN  [exercise_id |-> exercise.id,
                                 exercise_name |-> exercise.name,
                                 primary_muscle |-> exercise.primary_muscle,
                                 target_sets |-> p.target_sets,
                                 target_reps |-> p.target_reps,
                                 rest_seconds |-> p.rest_seconds]]
            IN  /\ Len(workouts) < MaxWorkouts
                /\ workouts' = Append(workouts, workout)
                /\ workout_exercises' = workout_exercises \o rows
                /\ IF DurationRaises(exercise_details)
                   THEN \* TypeError after db.commit()
                        last' = Response("createCustom", request, 500, "type_error", None)
                   ELSE last' = Response("createCustom", request, 200, "ok",
                             [workout_id |-> workout.id, goal |-> request.goal,
                              exercises |-> exercise_details,
                              estimated_duration |-> CustomDuration(exercise_details)])

----------------------------------------------------------------------------
\* POST /workouts/{workout_id}/log

\* db.query(WorkoutLog).filter(WorkoutLog.workout_id == workout_id)
LogsOf(workout_id) == SelectSeq(workout_logs, LAMBDA l : l.workout_id = workout_id)

\* Mutant: the duration is not passed on, so the column default 0 is stored.
NewWorkoutLog_default_duration(workout_id, duration_minutes) ==
    [id |-> Len(workout_logs) + 1,
     workout_id |-> workout_id,
     performed_at |-> now,
     duration_minutes |-> 0]

\* WorkoutLog(workout_id=workout_id, duration_minutes=request.duration_minutes),
\* with the id and performed_at the store assigns.
NewWorkoutLog(workout_id, duration_minutes) ==
    [id |-> Len(workout_logs) + 1,
     workout_id |-> workout_id,
     performed_at |-> now,
     duration_minutes |-> duration_minutes]

log_workout(workout_id, request) ==
    LET echo == [workout_id |-> workout_id, body |-> request]
    IN  /\ UNCHANGED <<unwritten, exercises, workouts, workout_exercises, exercise_sets, now>>
        /\ IF request.duration_minutes < 1
           THEN \* WorkoutLogRequest: Field(..., ge=1) rejects the body before the handler runs
                /\ last' = Response("logSession", echo, 422, "validation_error", None)
                /\ UNCHANGED <<workout_logs, logged>>
           ELSE IF WorkoutById(workout_id) = <<>>
           THEN /\ last' = Response("logSession", echo, 404, "workout_not_found", None)
                /\ UNCHANGED <<workout_logs, logged>>
           ELSE IF request.duration_minutes < 1
           THEN /\ last' = Response("logSession", echo, 400, "duration_too_short", None)
                /\ UNCHANGED <<workout_logs, logged>>
           ELSE LET workout_log == NewWorkoutLog(workout_id, request.duration_minutes)
                IN  /\ Len(workout_logs) < MaxLogs
                    /\ workout_logs' = Append(workout_logs, workout_log)
                    /\ logged' = logged \cup {workout_id}
                    /\ last' = Response("logSession", echo, 200, "ok",
                                 [log_id |-> workout_log.id,
                                  workout_id |-> workout_log.workout_id,
                                  performed_at |-> workout_log.performed_at,
                                  duration_minutes |-> workout_log.duration_minutes,
                                  exercise_sets |-> <<>>])

----------------------------------------------------------------------------
\* POST /workouts/{workout_id}/exercises/{exercise_id}/log

\* db.query(WorkoutExercise).filter(workout_id == .., exercise_id == ..).first()
\* Mutant: the rows of the exercise in any workout.
WorkoutExerciseOf_any_workout(workout_id, exercise_id) ==
    SelectSeq(workout_exercises, LAMBDA we : we.exercise_id = exercise_id)

WorkoutExerciseOf(workout_id, exercise_id) ==
    SelectSeq(workout_exercises,
              LAMBDA we : we.workout_id = workout_id /\ we.exercise_id = exercise_id)

\* Mutant: the filter on the workout is missing.
MostRecentLogs_any_workout(workout_id) ==
    {l \in Range(workout_logs) :
        \A other \in Range(workout_logs) : other.performed_at <= l.performed_at}

\* Mutant: the ordering is ascending.
MostRecentLogs_oldest(workout_id) ==
    {l \in Range(LogsOf(workout_id)) :
        \A other \in Range(LogsOf(workout_id)) : other.performed_at >= l.performed_at}

\* .order_by(WorkoutLog.performed_at.desc()).first(): a log of the workout that
\* no other log of it follows in the ordering; among logs with the same
\* performed_at the store may return any.
MostRecentLogs(workout_id) ==
    {l \in Range(LogsOf(workout_id)) :
        \A other \in Range(LogsOf(workout_id)) : other.performed_at <= l.performed_at}

ExerciseSetRow(k, workout_log_id, exercise_id, idx, set_data) ==
    [id |-> Len(exercise_sets) + k,
     workout_log_id |-> workout_log_id,
     exercise_id |-> exercise_id,
     set_number |-> idx,
     reps |-> set_data.reps,
     weight_kg |-> ColumnDefault(set_data.weight_kg, 0),
     rpe |-> set_data.rpe]

\* Mutant: enumerate without start=1.
CreatedSets_from_zero(workout_log, exercise_id, sets) ==
    [idx \in 1..Len(sets) |-> ExerciseSetRow(idx, workout_log.id, exercise_id, idx - 1, sets[idx])]

\* The rows built by the loop over enumerate(request.sets, start=1).
CreatedSets(workout_log, exercise_id, sets) ==
    [idx \in 1..Len(sets) |-> ExerciseSetRow(idx, workout_log.id, exercise_id, idx, sets[idx])]

\* Mutant: the empty list of sets is refused before the workout is looked up.
LogSetsCheck_sets_first(workout_id, exercise_id, request) ==
    IF request.sets = <<>> THEN <<400, "no_sets_given">>
    ELSE IF WorkoutById(workout_id) = <<>> THEN <<404, "workout_not_found">>
    ELSE IF WorkoutExerciseOf(workout_id, exercise_id) = <<>> THEN <<404, "not_part_of_workout">>
    ELSE IF ExerciseById(exercise_id) = <<>> THEN <<404, "exercise_not_found">>
    ELSE IF MostRecentLogs(workout_id) = {} THEN <<400, "no_workout_log">>
    ELSE <<200, "ok">>

\* The first check of log_exercise_sets that fails, as <<status, detail>>;
\* <<200, "ok">> when all pass.
LogSetsCheck(workout_id, exercise_id, request) ==
    IF WorkoutById(workout_id) = <<>> THEN <<404, "workout_not_found">>
    ELSE IF WorkoutExerciseOf(workout_id, exercise_id) = <<>> THEN <<404, "not_part_of_workout">>
    ELSE IF ExerciseById(exercise_id) = <<>> THEN <<404, "exercise_not_found">>
    ELSE IF request.sets = <<>> THEN <<400, "no_sets_given">>
    ELSE IF MostRecentLogs(workout_id) = {} THEN <<400, "no_workout_log">>
    ELSE <<200, "ok">>

\* Mutant: the batch replaces the sets already stored for the log and exercise.
log_exercise_sets_replacing(workout_id, exercise_id, request) ==
    LET echo == [workout_id |-> workout_id, exercise_id |-> exercise_id, body |-> request]
        check == LogSetsCheck(workout_id, exercise_id, request)
    IN  /\ UNCHANGED <<unwritten, exercises, workouts, workout_exercises, workout_logs, now, logged>>
        /\ IF check[1] # 200
           THEN /\ last' = Response("logSets", echo, check[1], check[2], None)
                /\ UNCHANGED exercise_sets
           ELSE \E workout_log \in MostRecentLogs(workout_id) :
                LET created_sets == CreatedSets(workout_log, exercise_id, request.sets)
                    others == SelectSeq(exercise_sets,
                                LAMBDA es : es.workout_log_id # workout_log.id
                                            \/ es.exercise_id # exercise_id)
                IN  /\ Len(exercise_sets) + Len(request.sets) <= MaxSets
                    /\ exercise_sets' = others \o created_sets
                    /\ last' = Response("logSets", echo, 200, "ok", created_sets)

log_exercise_sets(workout_id, exercise_id, request) ==
    LET echo == [workout_id |-> workout_id, exercise_id |-> exercise_id, body |-> request]
        check == LogSetsCheck(workout_id, exercise_id, request)
    IN  /\ UNCHANGED <<unwritten, exercises, workouts, workout_exercises, workout_logs, now, logged>>
        /\ IF check[1] # 200
           THEN /\ last' = Response("logSets", echo, check[1], check[2], None)
                /\ UNCHANGED exercise_sets
           ELSE \E workout_log \in MostRecentLogs(workout_id) :
                LET created_sets == CreatedSets(workout_log, exercise_id, request.sets)
                IN  /\ Len(exercise_sets) + Len(request.sets) <= MaxSets
                    /\ exercise_sets' = exercise_sets \o created_sets
                    /\ last' = Response("logSets", echo, 200, "ok", created_sets)

----------------------------------------------------------------------------
\* GET /workouts/{workout_id}/logs

\* The orders in which the store may hand back the rows of s when the query
\* does not fix their order.
Reorderings(s) ==
    LET n == Len(s)
        perms == {p \in [1..n -> 1..n] : \A i, j \in 1..n : i # j => p[i] # p[j]}
    IN  {[k \in 1..n |-> s[p[k]]] : p \in perms}

\* .order_by(WorkoutLog.performed_at.desc()).all(): logs with the same
\* performed_at come in an order the store chooses.
LogsDescending(workout_id) ==
    {logs \in Reorderings(LogsOf(workout_id)) :
        \A i, j \in DOMAIN logs : i < j => logs[i].performed_at >= logs[j].performed_at}

\* One element of exercise_sets in the response.
SetDetail(ex_set) ==
    [set_id |-> ex_set.id,
     exercise_id |-> ex_set.exercise_id,
     exercise_name |-> ExerciseById(ex_set.exercise_id)[1].name,
     set_number |-> ex_set.set_number,
     reps |-> ex_set.reps,
     weight_kg |-> IF TruthyNum(ex_set.weight_kg) THEN Val(ex_set.weight_kg) ELSE 0,
     rpe |-> IF TruthyNum(ex_set.rpe) THEN ex_set.rpe ELSE None]

\* db.query(ExerciseSet, Exercise).join(...).filter(workout_log_id == log.id).all()
\* over the table read in the order scan: an inner join and no ORDER BY.
JoinedSets(scan, log) ==
    SelectSeq(scan, LAMBDA es : es.workout_log_id = log.id /\ ExerciseById(es.exercise_id) # <<>>)

LogDetail(scan, log) ==
    LET sets == JoinedSets(scan, log)
    IN  [log_id |-> log.id,
         workout_id |-> log.workout_id,
         performed_at |-> log.performed_at,
         duration_minutes |-> log.duration_minutes,
         exercise_sets |-> [k \in DOMAIN sets |-> SetDetail(sets[k])]]

get_workout_logs(workout_id) ==
    /\ UNCHANGED <<unwritten, exercises, workouts, workout_exercises, workout_logs, exercise_sets, now, logged>>
    /\ IF WorkoutById(workout_id) = <<>>
       THEN last' = Response("getLogs", [workout_id |-> workout_id], 404, "workout_not_found", None)
       ELSE \E logs \in LogsDescending(workout_id), scan \in Reorderings(exercise_sets) :
               last' = Response("getLogs", [workout_id |-> workout_id], 200, "ok",
                                [k \in DOMAIN logs |-> LogDetail(scan, logs[k])])

----------------------------------------------------------------------------
\* GET /progress

\* Mutant: the filter on the user is missing.
WorkoutsOfUser_all(user_id) == workouts

\* db.query(Workout).filter(Workout.user_id == user_id).all()
WorkoutsOfUser(user_id) == SelectSeq(workouts, LAMBDA w : w.user_id = user_id)

\* Mutant: the logs of every user's workouts.
LogsInWindow_all_users(user_id, days) ==
    SelectSeq(workout_logs, LAMBDA l : l.performed_at >= now - days)

\* The logs of the user's workouts with performed_at >= start_date.
LogsInWindow(user_id, days) ==
    LET workout_ids == {w.id : w \in Range(WorkoutsOfUser(user_id))}
        start_date == now - days
    IN  SelectSeq(workout_logs,
                  LAMBDA l : l.workout_id \in workout_ids /\ l.performed_at >= start_date)

\* db.query(ExerciseSet).filter(ExerciseSet.workout_log_id.in_(log_ids)).all()
SetsOfLogs(logs) ==
    LET log_ids == {l.id : l \in Range(logs)}
    IN  SelectSeq(exercise_sets, LAMBDA es : es.workout_log_id \in log_ids)

\* s.reps or 0
RepsOrZero(es) == IF TruthyNum(es.reps) THEN Val(es.reps) ELSE 0

\* sum(1 for log in logs if log.performed_at >= now - timedelta(days=d))
CountSince(logs, d) == Len(SelectSeq(logs, LAMBDA l : l.performed_at >= now - d))

\* The keys of exercise_sets_map, in order of first appearance.
RECURSIVE FirstAppearances(_)
FirstAppearances(ids) ==
    IF ids = <<>> THEN <<>>
    ELSE LET front == FirstAppearances(SubSeq(ids, 1, Len(ids) - 1))
             x == ids[Len(ids)]
         IN  IF x \in Range(front) THEN front ELSE Append(front, x)

RECURSIVE MaxOf(_)
MaxOf(s) == IF Len(s) = 1 THEN s[1] ELSE Max(Head(s), MaxOf(Tail(s)))

\* One entry of exercise_progress; avg_weight_kg is the quotient sum / count,
\* kept as the pair of its terms.
ExerciseProgressEntry(exercise_id, ex_sets) ==
    LET with_weight == SelectSeq(ex_sets, LAMBDA es : TruthyNum(es.weight_kg))
        weights == [k \in DOMAIN with_weight |-> Val(with_weight[k].weight_kg)]
    IN  [exercise_id |-> exercise_id,
         exercise_name |-> ExerciseById(exercise_id)[1].name,
         total_sets |-> Len(ex_sets),
         total_reps |-> SumSeq([k \in DOMAIN ex_sets |-> RepsOrZero(ex_sets[k])]),
         max_weight_kg |-> IF weights # <<>> THEN MaxOf(weights) ELSE 0,
         avg_weight_kg |-> IF weights # <<>> THEN <<SumSeq(weights), Len(weights)>> ELSE <<0, 1>>]

\* Mutant: the entries are left in the order they were built.
SortByTotalSets_unsorted(entries) == entries

\* list.sort(key=total_sets, reverse=True): stable, descending.
RECURSIVE SortByTotalSets(_)
SortByTotalSets(entries) ==
    IF entries = <<>> THEN <<>>
    ELSE LET sorted == SortByTotalSets(SubSeq(entries, 1, Len(entries) - 1))
             x == entries[Len(entries)]
             keep == SelectSeq(sorted, LAMBDA e : e.total_sets >= x.total_sets)
             after == SelectSeq(sorted, LAMBDA e : e.total_sets < x.total_sets)
         IN  keep \o <<x>> \o after

ExerciseProgressList(sets) ==
    LET ids == FirstAppearances([k \in DOMAIN sets |-> sets[k].exercise_id])
        known == SelectSeq(ids, LAMBDA id : id # 0 /\ ExerciseById(id) # <<>>)
    IN  SortByTotalSets([k \in DOMAIN known |->
            ExerciseProgressEntry(known[k],
                SelectSeq(sets, LAMBDA es : es.exercise_id = known[k]))])

\* Mutant: 5 calories per minute.
estimated_calories_flat5(total_duration) == total_duration * 500

\* round(total_duration * 6.5, 2), in hundredths: 6.5 and its products with an
\* int are exact in binary floating point and have at most one decimal.
estimated_calories(total_duration) == (total_duration * 13 * 100) \div 2

\* The body get_progress_summary returns when the user has no workouts.
EmptySummary(user_id) ==
    [user_id |-> user_id, total_workouts |-> 0, total_exercises |-> 0,
     total_sets |-> 0, total_reps |-> 0, total_duration_minutes |-> 0,
     estimated_calories_burned |-> 0,
     workout_frequency |-> [last_7_days |-> 0, last_30_days |-> 0, last_90_days |-> 0],
     exercise_progress |-> <<>>]

\* The body get_progress_summary builds from the logs and sets it has read.
\* estimated_calories_burned (total_duration * 6.5, 2 decimals) is in hundredths.
SummaryBody(user_id, logs, sets) ==
    LET total_duration == SumSeq([k \in DOMAIN logs |-> logs[k].duration_minutes])
    IN  [user_id |-> user_id,
         total_workouts |-> Len(logs),
         total_exercises |-> Cardinality({sets[k].exercise_id : k \in DOMAIN sets} \ {0}),
         total_sets |-> Len(sets),
         total_reps |-> SumSeq([k \in DOMAIN sets |-> RepsOrZero(sets[k])]),
         total_duration_minutes |-> total_duration,
         estimated_calories_burned |-> estimated_calories(total_duration),
         workout_frequency |-> [last_7_days |-> CountSince(logs, 7),
                                last_30_days |-> CountSince(logs, 30),
                                last_90_days |-> CountSince(logs, 90)],
         exercise_progress |-> ExerciseProgressList(sets)]

\* The body get_progress_summary returns for an existing user.
Summary(user_id, days) ==
    IF WorkoutsOfUser(user_id) = <<>>
    THEN EmptySummary(user_id)
    ELSE SummaryBody(user_id, LogsInWindow(user_id, days), SetsOfLogs(LogsInWindow(user_id, days)))

\* log.performed_at >= now - timedelta(days=7): now is datetime.utcnow(), which
\* is naive, and performed_at is a DateTime(timezone=True) column.  Where the
\* store hands the column back timezone-aware the comparison raises TypeError,
\* where it hands it back naive it is evaluated.  It runs once per log in the
\* window, so not at all when there is none.
CompareOutcomes(user_id, days) ==
    IF WorkoutsOfUser(user_id) = <<>> \/ LogsInWindow(user_id, days) = <<>>
    THEN {"ok"}
    ELSE {"ok", "type_error"}

get_progress_summary(user_id, days) ==
    /\ UNCHANGED <<unwritten, exercises, workouts, workout_exercises, workout_logs, exercise_sets, now, logged>>
    /\ IF days < 1 \/ days > 365
       THEN \* Query(30, ge=1, le=365) rejects the parameter before the handler runs
            last' = Response("summary", [user_id |-> user_id, days |-> days],
                             422, "validation_error", None)
       ELSE IF user_id \notin users
       THEN last' = Response("summary", [user_id |-> user_id, days |-> days],
                             404, "user_not_found", None)
       ELSE \E outcome \in CompareOutcomes(user_id, days) :
               last' = IF outcome = "type_error"
                       THEN Response("summary", [user_id |-> user_id, days |-> days],
                                     500, "type_error", None)
                       ELSE Response("summary", [user_id |-> user_id, days |-> days],
                                     200, "ok", Summary(user_id, days))

----------------------------------------------------------------------------
\* GET /progress/exercise/{exercise_id}

LogById(id) == CHOOSE l \in Range(workout_logs) : l.id = id

\* Mutant: the ORDER BY is missing.
SetsByPerformedAt_unordered(logs, exercise_id) ==
    LET log_ids == {l.id : l \in Range(logs)}
    IN  Reorderings(SelectSeq(exercise_sets,
            LAMBDA es : es.workout_log_id \in log_ids /\ es.exercise_id = exercise_id))

\* db.query(ExerciseSet, WorkoutLog).join(...).filter(...).order_by(
\* WorkoutLog.performed_at).all(): the sets of the exercise in the given logs;
\* sets whose logs share performed_at come in an order the store chooses.
SetsByPerformedAt(logs, exercise_id) ==
    LET log_ids == {l.id : l \in Range(logs)}
        found == SelectSeq(exercise_sets,
                     LAMBDA es : es.workout_log_id \in log_ids /\ es.exercise_id = exercise_id)
    IN  {sets \in Reorderings(found) :
            \A i, j \in DOMAIN sets : i < j =>
                LogById(sets[i].workout_log_id).performed_at
                    <= LogById(sets[j].workout_log_id).performed_at}

\* One entry of the progression timeline.
ProgressionEntry(ex_set) ==
    [date |-> LogById(ex_set.workout_log_id).performed_at,
     reps |-> RepsOrZero(ex_set),
     weight_kg |-> IF TruthyNum(ex_set.weight_kg) THEN Val(ex_set.weight_kg) ELSE 0,
     rpe |-> IF TruthyNum(ex_set.rpe) THEN ex_set.rpe ELSE None,
     set_number |-> ex_set.set_number]

\* The ExerciseProgress built from the ordered sets (all zero when empty).
ExerciseProgress(exercise_id, sets) ==
    LET with_weight == SelectSeq(sets, LAMBDA es : TruthyNum(es.weight_kg))
        weights == [k \in DOMAIN with_weight |-> Val(with_weight[k].weight_kg)]
    IN  [exercise_id |-> exercise_id,
         exercise_name |-> ExerciseById(exercise_id)[1].name,
         total_sets |-> Len(sets),
         total_reps |-> SumSeq([k \in DOMAIN sets |-> RepsOrZero(sets[k])]),
         max_weight_kg |-> IF weights # <<>> THEN MaxOf(weights) ELSE 0,
         avg_weight_kg |-> IF weights # <<>> THEN <<SumSeq(weights), Len(weights)>> ELSE <<0, 1>>,
         progression |-> [k \in DOMAIN sets |-> ProgressionEntry(sets[k])]]

get_exercise_progress(user_id, exercise_id, days) ==
    LET echo == [user_id |-> user_id, exercise_id |-> exercise_id, days |-> days]
    IN  /\ UNCHANGED <<unwritten, exercises, workouts, workout_exercises, workout_logs, exercise_sets, now, logged>>
        /\ IF days < 1 \/ days > 365
           THEN \* Query(90, ge=1, le=365) rejects the parameter before the handler runs
                last' = Response("exerciseProgress", echo, 422, "validation_error", None)
           ELSE IF user_id \notin users
           THEN last' = Response("exerciseProgress", echo, 404, "user_not_found", None)
           ELSE IF ExerciseById(exercise_id) = <<>>
           THEN last' = Response("exerciseProgress", echo, 404, "exercise_not_found", None)
           ELSE \E sets \in SetsByPerformedAt(LogsInWindow(user_id, days), exercise_id) :
                   last' = Response("exerciseProgress", echo, 200, "ok",
                                    ExerciseProgress(exercise_id, sets))

----------------------------------------------------------------------------
\* GET /workouts/history

\* .filter(Workout.user_id == user_id).order_by(desc(Workout.created_at))
\* .limit(limit).all(): workouts with the same created_at come in an order
\* the store chooses.
WorkoutsNewestFirst(user_id, limit) ==
    {SubSeq(found, 1, Min(limit, Len(found))) :
        found \in {f \in Reorderings(WorkoutsOfUser(user_id)) :
                      \A i, j \in DOMAIN f : i < j => f[i].created_at >= f[j].created_at}}

\* db.query(WorkoutExercise, Exercise).join(...).filter(workout_id == workout.id).all()
JoinedWorkoutExercises(scan, workout_id) ==
    SelectSeq(scan, LAMBDA we : we.workout_id = workout_id /\ ExerciseById(we.exercise_id) # <<>>)

\* One element of the history; "exercise_id" is ex.id, the id of the
\* WorkoutExercise row.
HistoryEntry(workout, rows, logs) ==
    [workout_id |-> workout.id,
     goal |-> workout.goal,
     created_at |-> workout.created_at,
     exercise_count |-> Len(rows),
     exercises |-> [k \in DOMAIN rows |->
                      [exercise_id |-> rows[k].id,
                       exercise_name |-> ExerciseById(rows[k].exercise_id)[1].name,
                       target_sets |-> rows[k].target_sets,
                       target_reps |-> rows[k].target_reps]],
     logs |-> [k \in DOMAIN logs |->
                 [log_id |-> logs[k].id,
                  performed_at |-> logs[k].performed_at,
                  duration_minutes |-> logs[k].duration_minutes]],
     times_completed |-> Len(logs)]

\* The histories the handler may return for an existing user: the rows of a
\* workout in an order the store chooses, its logs newest first.
Histories(user_id, limit) ==
    {[k \in DOMAIN found |->
        HistoryEntry(found[k],
                     JoinedWorkoutExercises(scan, found[k].id),
                     SelectSeq(log_scan, LAMBDA l : l.workout_id = found[k].id))] :
        found \in WorkoutsNewestFirst(user_id, limit),
        scan \in Reorderings(workout_exercises),
        log_scan \in {logs \in Reorderings(workout_logs) :
                        \A i, j \in DOMAIN logs : i < j =>
                            logs[i].performed_at >= logs[j].performed_at}}

get_workout_history(user_id, limit) ==
    /\ UNCHANGED <<unwritten, exercises, workouts, workout_exercises, workout_logs, exercise_sets, now, logged>>
    /\ IF user_id \notin users
       THEN last' = Response("history", [user_id |-> user_id, limit |-> limit],
                             404, "user_not_found", None)
       ELSE \E history \in Histories(user_id, limit) :
               last' = Response("history", [user_id |-> user_id, limit |-> limit],
                                200, "ok", history)

----------------------------------------------------------------------------
\* GET /exercises and GET /exercises/{exercise_id}

\* column.ilike(f"%{pattern}%") for the patterns served, which are whole
\* values of the column or match none: the comparison ignores case.
ilike(column, pattern) == column # None /\ lower(Val(column)) = lower(pattern)

\* The place of a name among the names of the catalogs, in the order of
\* ORDER BY name.
NameRank(name) ==
    CASE name = "Barbell Curl" -> 1
      [] name = "Bench Press" -> 2
      [] name = "Deadlift" -> 3
      [] name = "Dumbbell Fly" -> 4
      [] name = "Dumbbell Row" -> 5
      [] name = "Farmer Walk" -> 6
      [] name = "Lateral Raise" -> 7
      [] name = "Plank" -> 8
      [] name = "Pull Up" -> 9
      [] name = "Push Up" -> 10
      [] name = "Squat" -> 11

\* query.order_by(Exercise.name).all(); names are unique.
RECURSIVE OrderByName(_)
OrderByName(rows) ==
    IF rows = {} THEN <<>>
    ELSE LET first == CHOOSE ex \in rows :
                          \A other \in rows : NameRank(ex.name) <= NameRank(other.name)
         IN  <<first>> \o OrderByName(rows \ {first})

get_exercises(primary_muscle, equipment_name) ==
    LET echo == [primary_muscle |-> primary_muscle, equipment |-> equipment_name]
        by_muscle == IF TruthyStr(primary_muscle)
                     THEN {ex \in Range(exercises) : ilike(ex.primary_muscle, Val(primary_muscle))}
                     ELSE Range(exercises)
        equipment_objs == {eq \in equipment : ilike(Some(eq.name), Val(equipment_name))}
    IN  /\ UNCHANGED <<unwritten, exercises, workouts, workout_exercises, workout_logs, exercise_sets, now, logged>>
        /\ IF ~TruthyStr(equipment_name)
           THEN last' = Response("listExercises", echo, 200, "ok", OrderByName(by_muscle))
           ELSE IF equipment_objs = {}
           THEN last' = Response("listExercises", echo, 200, "ok", <<>>)
           ELSE \E equipment_obj \in equipment_objs :
                   last' = Response("listExercises", echo, 200, "ok",
                              OrderByName({ex \in by_muscle :
                                              ex.equipment_id = Some(equipment_obj.id)}))

get_exercise_by_id(exercise_id) ==
    /\ UNCHANGED <<unwritten, exercises, workouts, workout_exercises, workout_logs, exercise_sets, now, logged>>
    /\ IF ExerciseById(exercise_id) = <<>>
       THEN last' = Response("getExercise", [exercise_id |-> exercise_id],
                             404, "exercise_not_found", None)
       ELSE last' = Response("getExercise", [exercise_id |-> exercise_id],
                             200, "ok", ExerciseById(exercise_id)[1])

----------------------------------------------------------------------------
\* Requests in flight.  Each request has a Session of its own (get_db): what
\* it adds or flushes stays in its transaction until db.commit(), and
\* db.close() without a commit rolls the transaction back.  The tables hold
\* the committed rows, which is what every statement of another session
\* reads (PostgreSQL, READ COMMITTED).

Requests == {"r1", "r2"}

\* Mutant: every flush is committed at once.
autocommit_on == TRUE

\* sessionmaker(autocommit=False, autoflush=False, bind=engine)
autocommit == FALSE

\* A session between requests.
NoSession ==
    [pc |-> "idle", op |-> "none", request |-> None, flushed |-> None,
     todo |-> <<>>, added |-> <<>>, found |-> None, result |-> <<>>]

\* No request in flight.  workout_id_seq stands for the ids the store hands
\* out at a flush; the other fields are history: requested holds
\* <<workout id, number of rows of its creating request>>, batches the sets of
\* ids of ExerciseSets committed together, rolled_back the ids of workouts
\* flushed in a transaction that was closed without a commit.
NoSessions ==
    [session |-> [r \in Requests |-> NoSession], workout_id_seq |-> 0,
     requested |-> {}, batches |-> {}, rolled_back |-> {}]

\* The first check of generate_workout that fails, as <<status, detail>>.
GenerateCheck(request) ==
    IF request.user_id \notin users THEN <<404, "user_not_found">>
    ELSE IF ~GoalIsValid(lower(request.goal)) THEN <<400, "invalid_goal">>
    ELSE IF FilteredExercises(request) = <<>> THEN <<400, "no_exercises">>
    ELSE IF request.duration_minutes = None THEN <<500, "type_error">>
    ELSE <<200, "ok">>

\* generate_workout up to db.flush(): the workout is inserted in the
\* transaction of the session.
generate_workout_flush(r, request) ==
    LET check == GenerateCheck(request)
    IN  /\ db.session[r].pc = "idle"
        /\ UNCHANGED <<users, goals, equipment, exercises, workout_exercises, workout_logs,
                       exercise_sets, now, logged>>
        /\ IF check[1] # 200
           THEN /\ last' = Response("generate", request, check[1], check[2], None)
                /\ UNCHANGED <<db, workouts>>
           ELSE \E selected_exercises \in Selections(FilteredExercises(request),
                                                     Val(request.duration_minutes)) :
                LET workout == [NewWorkout(request.user_id, lower(request.goal))
                                    EXCEPT !.id = db.workout_id_seq + 1]
                IN  /\ db.workout_id_seq < MaxWorkouts
                    /\ db' = [db EXCEPT
                                !.session[r] = [NoSession EXCEPT !.pc = "adding",
                                                                 !.op = "generate",
                                                                 !.request = request,
                                                                 !.flushed = Some(workout),
                                                                 !.todo = selected_exercises],
                                !.workout_id_seq = @ + 1,
                                !.requested = @ \cup {<<workout.id, Len(selected_exercises)>>}]
                    /\ workouts' = IF autocommit THEN Append(workouts, workout) ELSE workouts
                    /\ UNCHANGED last

\* db.add(workout_exercise), db.add(exercise_set): one turn of the loop.
db_add(r) ==
    /\ db.session[r].pc = "adding"
    /\ db.session[r].todo # <<>>
    /\ db' = [db EXCEPT !.session[r].added = Append(@, Head(db.session[r].todo)),
                        !.session[r].todo = Tail(@)]
    /\ UNCHANGED <<users, goals, equipment, exercises, workouts, workout_exercises,
                   workout_logs, exercise_sets, now, last, logged>>

\* generate_workout from db.commit() on.
generate_workout_commit(r) ==
    LET session == db.session[r]
        workout == session.flushed[1]
        p == Prescription(workout.goal)
        n == Len(session.added)
        rows == [k \in 1..n |->
                    WorkoutExerciseRow(k, workout.id, session.added[k].id,
                        Some(p.target_sets), Some(p.target_reps), Some(p.rest_seconds))]
        exercise_details == [k \in 1..n |->
                    [exercise_id |-> session.added[k].id,
                     exercise_name |-> session.added[k].name,
                     primary_muscle |-> session.added[k].primary_muscle,
                     target_sets |-> p.target_sets,
                     target_reps |-> p.target_reps,
                     rest_seconds |-> p.rest_seconds]]
    IN  /\ session.pc = "adding"
        /\ session.op = "generate"
        /\ session.todo = <<>>
        /\ workouts' = IF autocommit THEN workouts ELSE Append(workouts, workout)
        /\ workout_exercises' = workout_exercises \o rows
        /\ db' = [db EXCEPT !.session[r] = NoSession]
        /\ last' = Response("generate", session.request, 200, "ok",
                     [workout_id |-> workout.id, goal |-> workout.goal,
                      exercises |-> exercise_details,
                      estimated_duration |-> GenerateDuration(n, p)])
        /\ UNCHANGED <<users, goals, equipment, exercises, workout_logs, exercise_sets, now, logged>>

\* An exception between the first statement and db.commit(): get_db closes
\* the session, which rolls its transaction back.
close_without_commit(r) ==
    LET session == db.session[r]
    IN  /\ session.pc = "adding"
        /\ db' = [db EXCEPT !.session[r] = NoSession,
                            !.rolled_back = IF session.flushed = None THEN @
                                            ELSE @ \cup {session.flushed[1].id}]
        /\ last' = Response(session.op, session.request, 500, "closed_without_commit", None)
        /\ UNCHANGED <<users, goals, equipment, exercises, workouts, workout_exercises,
                       workout_logs, exercise_sets, now, logged>>

\* log_exercise_sets up to the lookup of the most recent log.
log_exercise_sets_begin(r, workout_id, exercise_id, request) ==
    LET echo == [workout_id |-> workout_id, exercise_id |-> exercise_id, body |-> request]
        check == LogSetsCheck(workout_id, exercise_id, request)
    IN  /\ db.session[r].pc = "idle"
        /\ UNCHANGED <<users, goals, equipment, exercises, workouts, workout_exercises,
                       workout_logs, exercise_sets, now, logged>>
        /\ IF check[1] # 200
           THEN /\ last' = Response("logSets", echo, check[1], check[2], None)
                /\ UNCHANGED db
           ELSE \E workout_log \in MostRecentLogs(workout_id) :
                /\ db' = [db EXCEPT !.session[r] = [NoSession EXCEPT !.pc = "adding",
                                                                     !.op = "logSets",
                                                                     !.request = echo,
                                                                     !.found = Some(workout_log),
                                                                     !.todo = request.sets]]
                /\ UNCHANGED last

\* log_exercise_sets from db.commit() on.
log_exercise_sets_commit(r) ==
    LET session == db.session[r]
        created_sets == CreatedSets(session.found[1], session.request.exercise_id, session.added)
    IN  /\ session.pc = "adding"
        /\ session.op = "logSets"
        /\ session.todo = <<>>
        /\ Len(exercise_sets) + Len(session.added) <= MaxSets
        /\ exercise_sets' = exercise_sets \o created_sets
        /\ db' = [db EXCEPT !.session[r] = NoSession,
                            !.batches = @ \cup {{es.id : es \in Range(created_sets)}}]
        /\ last' = Response("logSets", session.request, 200, "ok", created_sets)
        /\ UNCHANGED <<users, goals, equipment, exercises, workouts, workout_exercises,
                       workout_logs, now, logged>>

\* get_workout_history up to the query of the workouts.
get_workout_history_begin(r, user_id, limit) ==
    LET echo == [user_id |-> user_id, limit |-> limit]
    IN  /\ db.session[r].pc = "idle"
        /\ UNCHANGED <<users, goals, equipment, exercises, workouts, workout_exercises,
                       workout_logs, exercise_sets, now, logged>>
        /\ IF user_id \notin users
           THEN /\ last' = Response("history", echo, 404, "user_not_found", None)
                /\ UNCHANGED db
           ELSE \E found \in WorkoutsNewestFirst(user_id, limit) :
                /\ db' = [db EXCEPT !.session[r] = [NoSession EXCEPT !.pc = "reading",
                                                                     !.op = "history",
                                                                     !.request = echo,
                                                                     !.todo = found]]
                /\ UNCHANGED last

\* The query of the rows of the next workout of the history.
get_workout_history_exercises(r) ==
    LET session == db.session[r]
    IN  /\ session.pc = "reading"
        /\ session.op = "history"
        /\ session.todo # <<>>
        /\ session.found = None
        /\ \E scan \in Reorderings(workout_exercises) :
              db' = [db EXCEPT !.session[r].found =
                        Some(JoinedWorkoutExercises(scan, Head(session.todo).id))]
        /\ UNCHANGED <<users, goals, equipment, exercises, workouts, workout_exercises,
                       workout_logs, exercise_sets, now, last, logged>>

\* The query of the logs of that workout, and its entry.
get_workout_history_logs(r) ==
    LET session == db.session[r]
    IN  /\ session.pc = "reading"
        /\ session.op = "history"
        /\ session.found # None
        /\ \E logs \in LogsDescending(Head(session.todo).id) :
              db' = [db EXCEPT !.session[r].result =
                                    Append(@, HistoryEntry(Head(session.todo),
                                                           session.found[1], logs)),
                               !.session[r].todo = Tail(@),
                               !.session[r].found = None]
        /\ UNCHANGED <<users, goals, equipment, exercises, workouts, workout_exercises,
                       workout_logs, exercise_sets, now, last, logged>>

\* get_workout_logs up to the query of the logs.
get_workout_logs_begin(r, workout_id) ==
    /\ db.session[r].pc = "idle"
    /\ UNCHANGED <<users, goals, equipment, exercises, workouts, workout_exercises,
                   workout_logs, exercise_sets, now, logged>>
    /\ IF WorkoutById(workout_id) = <<>>
       THEN /\ last' = Response("getLogs", [workout_id |-> workout_id],
                                404, "workout_not_found", None)
            /\ UNCHANGED db
       ELSE \E logs \in LogsDescending(workout_id) :
            /\ db' = [db EXCEPT !.session[r] = [NoSession EXCEPT !.pc = "reading",
                                                                 !.op = "getLogs",
                                                                 !.request = [workout_id |-> workout_id],
                                                                 !.todo = logs]]
            /\ UNCHANGED last

\* The query of the sets of the next log, and its detail.
get_workout_logs_sets(r) ==
    LET session == db.session[r]
    IN  /\ session.pc = "reading"
        /\ session.op = "getLogs"
        /\ session.todo # <<>>
        /\ \E scan \in Reorderings(exercise_sets) :
              db' = [db EXCEPT !.session[r].result = Append(@, LogDetail(scan, Head(session.todo))),
                               !.session[r].todo = Tail(@)]
        /\ UNCHANGED <<users, goals, equipment, exercises, workouts, workout_exercises,
                       workout_logs, exercise_sets, now, last, logged>>

\* The return of get_workout_history and of get_workout_logs.
return_result(r) ==
    LET session == db.session[r]
    IN  /\ session.pc = "reading"
        /\ session.op \in {"history", "getLogs"}
        /\ session.todo = <<>>
        /\ db' = [db EXCEPT !.session[r] = NoSession]
        /\ last' = Response(session.op, session.request, 200, "ok", session.result)
        /\ UNCHANGED <<users, goals, equipment, exercises, workouts, workout_exercises,
                       workout_logs, exercise_sets, now, logged>>

\* get_progress_summary up to the query of the workouts.
get_progress_summary_begin(r, user_id, days) ==
    LET echo == [user_id |-> user_id, days |-> days]
    IN  /\ db.session[r].pc = "idle"
        /\ UNCHANGED <<users, goals, equipment, exercises, workouts, workout_exercises,
                       workout_logs, exercise_sets, now, logged>>
        /\ IF days < 1 \/ days > 365
           THEN /\ last' = Response("summary", echo, 422, "validation_error", None)
                /\ UNCHANGED db
           ELSE IF user_id \notin users
           THEN /\ last' = Response("summary", echo, 404, "user_not_found", None)
                /\ UNCHANGED db
           ELSE IF WorkoutsOfUser(user_id) = <<>>
           THEN /\ last' = Response("summary", echo, 200, "ok", EmptySummary(user_id))
                /\ UNCHANGED db
           ELSE /\ db' = [db EXCEPT !.session[r] = [NoSession EXCEPT !.pc = "reading",
                                                                     !.op = "summary",
                                                                     !.request = echo,
                                                                     !.todo = WorkoutsOfUser(user_id)]]
                /\ UNCHANGED last

\* The query of the logs of the workouts read, within the window.
get_progress_summary_logs(r) ==
    LET session == db.session[r]
        workout_ids == {w.id : w \in Range(session.todo)}
    IN  /\ session.pc = "reading"
        /\ session.op = "summary"
        /\ session.found = None
        /\ db' = [db EXCEPT !.session[r].found =
                     Some(SelectSeq(workout_logs,
                            LAMBDA l : /\ l.workout_id \in workout_ids
                                       /\ l.performed_at >= now - session.request.days))]
        /\ UNCHANGED <<users, goals, equipment, exercises, workouts, workout_exercises,
                       workout_logs, exercise_sets, now, last, logged>>

\* The query of the sets of the logs read, and the rest of get_progress_summary.
get_progress_summary_sets(r) ==
    LET session == db.session[r]
        logs == session.found[1]
    IN  /\ session.pc = "reading"
        /\ session.op = "summary"
        /\ session.found # None
        /\ db' = [db EXCEPT !.session[r] = NoSession]
        /\ \E outcome \in (IF logs = <<>> THEN {"ok"} ELSE {"ok", "type_error"}) :
              last' = IF outcome = "type_error"
                      THEN Response("summary", session.request, 500, "type_error", None)
                      ELSE Response("summary", session.request, 200, "ok",
                                    SummaryBody(session.request.user_id, logs, SetsOfLogs(logs)))
        /\ UNCHANGED <<users, goals, equipment, exercises, workouts, workout_exercises,
                       workout_logs, exercise_sets, now, logged>>

----------------------------------------------------------------------------
\* The clock.

TickDays == 25

Tick ==
    /\ now + TickDays <= MaxNow
    /\ now' = now + TickDays
    /\ UNCHANGED <<unwritten, exercises, workouts, workout_exercises, workout_logs, exercise_sets, last, logged>>

----------------------------------------------------------------------------
\* Requests.

GenerateRequest(user_id, goal, equip, duration_minutes) ==
    [user_id |-> user_id, goal |-> goal, equipment |-> equip, duration_minutes |-> duration_minutes]

\* The generate requests served: every goal, mixed case and unknown goals,
\* every shape of equipment filter, known and unknown users, null duration.
GenerateRequests == {
    GenerateRequest("u1", "strength", None, Some(45)),
    GenerateRequest("u1", "HYPERTROPHY", Some({"Barbell"}), Some(45)),
    GenerateRequest("u2", "endurance", Some({"Kettlebell"}), Some(-20)),
    GenerateRequest("u2", "weight_loss", Some({}), Some(70)),
    GenerateRequest("u1", "general", None, None),
    GenerateRequest("u1", "Cardio", None, Some(45)),
    GenerateRequest("u2", "cardio", Some({"Kettlebell"}), None),
    GenerateRequest("u9", "cardio", Some({"Barbell"}), None),
    GenerateRequest("u9", "general", None, Some(45)),
    GenerateRequest("u2", "Strength", None, Some(70)),
    GenerateRequest("u1", "general", Some({"Barbell", "Dumbbell"}), Some(60)) }

CustomRequest(user_id, goal, items) == [user_id |-> user_id, goal |-> goal, exercises |-> items]

\* A request item that names only its exercise.
Item(id) == [exercise_id |-> Some(id)]

\* A request item with a full prescription.
FullItem(id) ==
    [exercise_id |-> Some(id), target_sets |-> Some(4), target_reps |-> Some(8), rest_seconds |-> Some(60)]

\* The createCustom requests served: ids that exist, repeat or are missing,
\* items with defaults, with nulls and without an id, known and unknown users.
CustomRequests == {
    CustomRequest("u1", "general", <<Item(1)>>),
    CustomRequest("u2", "cardio", <<FullItem(1), Item(2)>>),
    CustomRequest("u1", "strength", <<Item(1), Item(99)>>),
    CustomRequest("u1", "strength", <<Item(99)>>),
    CustomRequest("u1", "general", <<Item(1), Item(1), Item(99)>>),
    CustomRequest("u1", "general", <<Item(2), Item(2)>>),
    CustomRequest("u1", "general", <<>>),
    CustomRequest("u9", "general", <<Item(1)>>),
    CustomRequest("u9", "general", <<>>),
    CustomRequest("u2", "general", <<[exercise_id |-> Some(2), target_sets |-> None]>>),
    CustomRequest("u1", "general", <<[exercise_id |-> Some(1), rest_seconds |-> None], Item(2)>>),
    CustomRequest("u1", "general", <<[target_sets |-> Some(3)]>>),
    CustomRequest("u1", "strength", <<Item(1), Item(2)>>),
    CustomRequest("u2", "general", <<Item(1)>>) }

\* The creation requests served next to the logging and progress operations.
SessionGenerateRequests == {
    GenerateRequest("u1", "Strength", Some({"Barbell"}), Some(45)),
    GenerateRequest("u9", "cardio", None, None) }

SessionCustomRequests == {
    CustomRequest("u2", "cardio", <<FullItem(1), Item(2)>>),
    CustomRequest("u1", "general", <<[exercise_id |-> Some(2), target_sets |-> None]>>) }

LogRequest(duration_minutes) == [duration_minutes |-> duration_minutes]

SetData(reps, weight_kg, rpe) == [reps |-> reps, weight_kg |-> weight_kg, rpe |-> rpe]

SetsRequest(sets) == [sets |-> sets]

\* A batch of one set, and a batch of two whose first set has no reps and no weight.
OneSet == <<SetData(Some(5), Some(20), None)>>
TwoSets == <<SetData(None, None, Some(7)), SetData(Some(3), Some(22), Some(8))>>

----------------------------------------------------------------------------

NoRequest == Response("none", None, 200, "ok", None)

\* The tables no handler writes, and no request in flight.
Quiescent ==
    /\ users = UserRows
    /\ goals = GoalRows
    /\ equipment = EquipmentRows
    /\ db = NoSessions

EmptyStore ==
    /\ Quiescent
    /\ workouts = <<>>
    /\ workout_exercises = <<>>
    /\ workout_logs = <<>>
    /\ exercise_sets = <<>>
    /\ now = 0
    /\ last = NoRequest
    /\ logged = {}

Generate == \E request \in GenerateRequests : generate_workout(request)

CreateCustom == \E request \in CustomRequests : create_custom_workout(request)

----------------------------------------------------------------------------
\* The whole API, from an empty store on the narrow catalog.

Init ==
    /\ exercises = CatalogNarrow
    /\ EmptyStore

SessionGenerate == \E request \in SessionGenerateRequests : generate_workout(request)

SessionCreateCustom == \E request \in SessionCustomRequests : create_custom_workout(request)

SessionLogWorkout ==
    \E workout_id \in {1, 2, 9}, duration_minutes \in {0, 30} :
        log_workout(workout_id, LogRequest(duration_minutes))

SessionLogExerciseSets ==
    \E workout_id \in {1, 2}, exercise_id \in {1, 2}, sets \in {<<>>, OneSet} :
        log_exercise_sets(workout_id, exercise_id, SetsRequest(sets))

SessionGetProgressSummary ==
    \E user_id \in {"u1", "u9"}, days \in {7, 30} : get_progress_summary(user_id, days)

Next ==
    \/ SessionGenerate
    \/ SessionCreateCustom
    \/ SessionLogWorkout
    \/ SessionLogExerciseSets
    \/ SessionGetProgressSummary
    \/ Tick

Spec == Init /\ [][Next]_vars

----------------------------------------------------------------------------
\* Workout creation alone, on every catalog and with the full request menus.

InitCreate ==
    /\ exercises \in Catalogs
    /\ EmptyStore

NextCreate ==
    \/ Generate
    \/ CreateCustom

SpecCreate == InitCreate /\ [][NextCreate]_vars

----------------------------------------------------------------------------
\* Session logging alone, on a store that holds two custom workouts:
\* workout 1 of u1 with exercises 1 and 2, workout 2 of u2 with exercise 1.

SeededWorkouts == <<
    [id |-> 1, user_id |-> "u1", goal |-> "strength", created_at |-> 0],
    [id |-> 2, user_id |-> "u2", goal |-> "general", created_at |-> 0] >>

SeededWorkoutExercises == <<
    [id |-> 1, workout_id |-> 1, exercise_id |-> 1,
     target_sets |-> Some(3), target_reps |-> Some(10), rest_seconds |-> Some(90)],
    [id |-> 2, workout_id |-> 1, exercise_id |-> 2,
     target_sets |-> Some(3), target_reps |-> Some(10), rest_seconds |-> Some(90)],
    [id |-> 3, workout_id |-> 2, exercise_id |-> 1,
     target_sets |-> Some(3), target_reps |-> Some(10), rest_seconds |-> Some(90)] >>

InitLog ==
    /\ Quiescent
    /\ exercises = CatalogNarrow
    /\ workouts = SeededWorkouts
    /\ workout_exercises = SeededWorkoutExercises
    /\ workout_logs = <<>>
    /\ exercise_sets = <<>>
    /\ now = 0
    /\ last = NoRequest
    /\ logged = {}

LogWorkout ==
    \E workout_id \in {1, 2, 9}, duration_minutes \in {0, 1, 30} :
        log_workout(workout_id, LogRequest(duration_minutes))

LogExerciseSets ==
    \E workout_id \in {1, 2, 9}, exercise_id \in {1, 2, 99}, sets \in {<<>>, OneSet, TwoSets} :
        log_exercise_sets(workout_id, exercise_id, SetsRequest(sets))

NextLog ==
    \/ LogWorkout
    \/ LogExerciseSets
    \/ Tick

SpecLog == InitLog /\ [][NextLog]_vars

----------------------------------------------------------------------------
\* Sessions that log and read back: the store holds workout 1 of u1, and
\* either workout 2 of u2 as well or no workout of u2 at all.

SoloWorkouts == SubSeq(SeededWorkouts, 1, 1)

SoloWorkoutExercises == SubSeq(SeededWorkoutExercises, 1, 2)

InitRead ==
    /\ Quiescent
    /\ exercises = CatalogNarrow
    /\ \E seeded \in BOOLEAN :
          /\ workouts = (IF seeded THEN SeededWorkouts ELSE SoloWorkouts)
          /\ workout_exercises = (IF seeded THEN SeededWorkoutExercises ELSE SoloWorkoutExercises)
    /\ workout_logs = <<>>
    /\ exercise_sets = <<>>
    /\ now = 0
    /\ last = NoRequest
    /\ logged = {}

\* Workout 1 is logged with either duration, workout 2 with one.
ReadLogWorkout ==
    \E request \in {<<1, 30>>, <<1, 45>>, <<2, 30>>} :
        log_workout(request[1], LogRequest(request[2]))

\* Sets for either exercise of workout 1 and for the exercise of workout 2.
ReadLogExerciseSets ==
    \E request \in {<<1, 1>>, <<1, 2>>, <<2, 1>>}, sets \in {OneSet, TwoSets} :
        log_exercise_sets(request[1], request[2], SetsRequest(sets))

GetWorkoutLogs == \E workout_id \in {1, 2, 9} : get_workout_logs(workout_id)

GetExerciseProgress ==
    \E user_id \in {"u1", "u9"}, exercise_id \in {1, 99}, days \in {7, 30} :
        get_exercise_progress(user_id, exercise_id, days)

NextRead ==
    \/ ReadLogWorkout
    \/ ReadLogExerciseSets
    \/ GetWorkoutLogs
    \/ GetExerciseProgress
    \/ Tick

SpecRead == InitRead /\ [][NextRead]_vars

----------------------------------------------------------------------------
\* Sessions that log and ask for the summary, from the same stores.

GetProgressSummary ==
    \E user_id \in {"u1", "u2", "u9"}, days \in {0, 7, 30} : get_progress_summary(user_id, days)

\* A batch of one set with a negative weight, which the request schema admits.
NegativeSet == <<SetData(Some(4), Some(-5), None)>>

SummaryLogExerciseSets ==
    \E request \in {<<1, 1>>, <<1, 2>>, <<2, 1>>}, sets \in {TwoSets, NegativeSet} :
        log_exercise_sets(request[1], request[2], SetsRequest(sets))

NextSummary ==
    \/ ReadLogWorkout
    \/ SummaryLogExerciseSets
    \/ GetProgressSummary
    \/ Tick

SpecSummary == InitRead /\ [][NextSummary]_vars

----------------------------------------------------------------------------
\* Properties.

WriteOps == {"generate", "createCustom", "logSession", "logSets"}

Distinct(s) == \A i, j \in DOMAIN s : i # j => s[i] # s[j]

\* The ids of the exercises table.
CatalogIds == {exercises[k].id : k \in DOMAIN exercises}

\* C1: a generate, createCustom, logSession or logSets call that ends in an
\* error (NotFound, InvalidArgument or an unexpected failure) leaves every
\* table of the store as it was before the call.
C1_ErrorLeavesStoreUnchanged ==
    [][(last'.op \in WriteOps /\ last'.status # 200) => store' = store]_vars

\* C2: a successful generate returns a non-empty exercise list without a
\* repeated exercise id, the WorkoutExercise rows of the new workout are those
\* exercises (pairwise distinct), and estimated_duration >= 0.
C2_GenerateNonEmptyDistinct ==
    (last.op = "generate" /\ last.status = 200) =>
        LET ids == [k \in DOMAIN last.body.exercises |-> last.body.exercises[k].exercise_id]
            rows == SelectSeq(workout_exercises, LAMBDA we : we.workout_id = last.body.workout_id)
        IN  /\ ids # <<>>
            /\ Distinct(ids)
            /\ [k \in DOMAIN rows |-> rows[k].exercise_id] = ids
            /\ last.body.estimated_duration >= 0

\* C2 witness: a generated workout of seven exercises, five drawn from the
\* major groups and two added to reach the target count.
C2_Witness ==
    /\ last.op = "generate"
    /\ last.status = 200
    /\ Len(last.body.exercises) = 7
    /\ Len(workouts) = 2

\* C3, as claimed: generate with an unknown goal fails with InvalidArgument
\* whatever the user id, equipment filter and duration are, and creates no row.
C3_UnknownGoalAlwaysInvalidArgument ==
    [][(last'.op = "generate" /\ lower(last'.request.goal) \notin valid_goals) =>
        /\ ErrorKind(last'.status) = "InvalidArgument"
        /\ UNCHANGED <<workouts, workout_exercises>>]_vars

\* C3, amended: generate with an unknown goal creates no row and fails with
\* InvalidArgument when the user exists, with NotFound when the user id is of
\* no user (the user is looked up first), whatever the filter and duration are.
C3_UnknownGoalRejected ==
    [][(last'.op = "generate" /\ lower(last'.request.goal) \notin valid_goals) =>
        /\ ErrorKind(last'.status) =
              (IF last'.request.user_id \in users THEN "InvalidArgument" ELSE "NotFound")
        /\ UNCHANGED <<workouts, workout_exercises>>]_vars

\* C3 witness: an unknown goal sent for an existing user with an equipment
\* filter and a null duration, refused as an invalid goal next to a stored workout.
C3_Witness ==
    /\ last.op = "generate"
    /\ last.request = GenerateRequest("u2", "cardio", Some({"Kettlebell"}), None)
    /\ last.status = 400
    /\ last.detail = "invalid_goal"
    /\ Len(workouts) = 1

\* C4: createCustom for an existing user with a non-empty list that names an
\* exercise id absent from the catalog fails with NotFound and adds no
\* Workout and no WorkoutExercise row, whatever the other ids are.
C4_MissingExerciseNotFound ==
    [][(/\ last'.op = "createCustom"
        /\ last'.request.user_id \in users
        /\ \E k \in DOMAIN last'.request.exercises :
              LET item == last'.request.exercises[k]
              IN  /\ "exercise_id" \in DOMAIN item
                  /\ item.exercise_id # None
                  /\ Val(item.exercise_id) \notin CatalogIds)
       => /\ ErrorKind(last'.status) = "NotFound"
          /\ UNCHANGED <<workouts, workout_exercises>>]_vars

\* C4 witness: ids 1, 1, 99 with 99 absent, refused next to a stored workout.
C4_Witness ==
    /\ last.op = "createCustom"
    /\ last.request = CustomRequest("u1", "general", <<Item(1), Item(1), Item(99)>>)
    /\ last.status = 404
    /\ last.detail = "exercise_not_found"
    /\ Len(workouts) = 1

\* A step that serves a request of the given operation (the clock stands still).
Served(op) == now' = now /\ last'.op = op

WorkoutExists(workout_id) == \E w \in Range(workouts) : w.id = workout_id

Linked(workout_id, exercise_id) ==
    \E we \in Range(workout_exercises) :
        we.workout_id = workout_id /\ we.exercise_id = exercise_id

HasLog(workout_id) == \E l \in Range(workout_logs) : l.workout_id = workout_id

\* C5: logSession on an existing workout with duration < 1 fails with
\* InvalidArgument and adds no WorkoutLog; with duration >= 1 it adds exactly
\* one WorkoutLog, of that workout and with the requested duration, and
\* returns it with an empty list of sets.
C5_LogSession ==
    [][(Served("logSession") /\ WorkoutExists(last'.request.workout_id)) =>
        LET d == last'.request.body.duration_minutes
            n == Len(workout_logs)
        IN  IF d < 1
            THEN /\ ErrorKind(last'.status) = "InvalidArgument"
                 /\ workout_logs' = workout_logs
            ELSE /\ last'.status = 200
                 /\ Len(workout_logs') = n + 1
                 /\ SubSeq(workout_logs', 1, n) = workout_logs
                 /\ workout_logs'[n + 1].workout_id = last'.request.workout_id
                 /\ workout_logs'[n + 1].duration_minutes = d
                 /\ last'.body.log_id = workout_logs'[n + 1].id
                 /\ last'.body.workout_id = last'.request.workout_id
                 /\ last'.body.duration_minutes = d
                 /\ last'.body.exercise_sets = <<>>]_vars

\* C5 witness: a second session of workout 1 logged with duration 1.
C5_Witness ==
    /\ last.op = "logSession"
    /\ last.request = [workout_id |-> 1, body |-> LogRequest(1)]
    /\ last.status = 200
    /\ last.body.duration_minutes = 1
    /\ Len(LogsOf(1)) = 2

\* C6: logSets for an exercise of an existing workout, with sets, fails with
\* InvalidArgument and adds no ExerciseSet while the workout has no WorkoutLog;
\* and every ExerciseSet belongs to a log of a workout that a logSession call
\* has succeeded for.
C6_NoSetsWithoutSession ==
    [][/\ (/\ Served("logSets")
           /\ WorkoutExists(last'.request.workout_id)
           /\ Linked(last'.request.workout_id, last'.request.exercise_id)
           /\ last'.request.body.sets # <<>>
           /\ ~HasLog(last'.request.workout_id))
          => /\ ErrorKind(last'.status) = "InvalidArgument"
             /\ last'.detail = "no_workout_log"
             /\ exercise_sets' = exercise_sets
       /\ \A es \in Range(exercise_sets') :
             \E l \in Range(workout_logs') :
                l.id = es.workout_log_id /\ l.workout_id \in logged']_vars

\* C6 witness: sets are refused for workout 2, which has no log, while
\* workout 1 has a log that holds a set.
C6_Witness ==
    /\ last.op = "logSets"
    /\ last.request.workout_id = 2
    /\ last.detail = "no_workout_log"
    /\ logged = {1}
    /\ exercise_sets # <<>>

\* The rows a successful logSets call must have added for its request: one per
\* input set, numbered from 1 in input order, all of the given exercise and of
\* one existing log of the workout, with reps, weight and RPE as given, a null
\* weight being stored as null_weight.
SetsAdded(null_weight) ==
    LET sets == last'.request.body.sets
        rows == last'.body
    IN  /\ exercise_sets' = exercise_sets \o rows
        /\ Len(rows) = Len(sets)
        /\ \E l \in Range(workout_logs) :
              /\ l.workout_id = last'.request.workout_id
              /\ \A k \in DOMAIN rows : rows[k].workout_log_id = l.id
        /\ \A k \in DOMAIN rows :
              /\ rows[k].set_number = k
              /\ rows[k].exercise_id = last'.request.exercise_id
              /\ rows[k].reps = sets[k].reps
              /\ rows[k].rpe = sets[k].rpe
              /\ rows[k].weight_kg =
                    (IF sets[k].weight_kg = None THEN null_weight ELSE sets[k].weight_kg)

C8_SetsGoToNewestLog ==
    (last.op = "logSets" /\ last.status = 200) =>
        LET logs == LogsOf(last.request.workout_id)
            newest == logs[Len(logs)]
        IN  /\ \A k \in DOMAIN logs : logs[k].performed_at <= newest.performed_at
            /\ \A k \in DOMAIN last.body : last.body[k].workout_log_id = newest.id

\* C8, amended: the sets of a successful logSets all go to one log of the
\* given workout whose performed_at no other log of that workout exceeds;
\* among logs that share the greatest performed_at it may be any of them.
C8_SetsGoToALatestLog ==
    (last.op = "logSets" /\ last.status = 200) =>
        \E l \in Range(workout_logs) :
            /\ l.workout_id = last.request.workout_id
            /\ \A other \in Range(workout_logs) :
                  other.workout_id = last.request.workout_id => other.performed_at <= l.performed_at
            /\ \A k \in DOMAIN last.body : last.body[k].workout_log_id = l.id

\* C8 witness: workout 1 has a log at day 0 and a later one; the sets go to
\* the later log.
C8_Witness ==
    /\ last.op = "logSets"
    /\ last.status = 200
    /\ last.request.workout_id = 1
    /\ Len(LogsOf(1)) = 2
    /\ LogsOf(1)[1].performed_at < LogsOf(1)[2].performed_at
    /\ last.body[1].workout_log_id = LogsOf(1)[2].id

\* C9: logSets answers with the error of the first check that fails, in the
\* order workout exists, exercise linked to the workout, exercise exists
\* (NotFound), sets non-empty, a log exists (InvalidArgument).
C9_ChecksInOrder ==
    [][Served("logSets") =>
        LET w == last'.request.workout_id
            e == last'.request.exercise_id
            answer == <<ErrorKind(last'.status), last'.detail>>
        IN  IF ~WorkoutExists(w) THEN answer = <<"NotFound", "workout_not_found">>
            ELSE IF ~Linked(w, e) THEN answer = <<"NotFound", "not_part_of_workout">>
            ELSE IF e \notin CatalogIds THEN answer = <<"NotFound", "exercise_not_found">>
            ELSE IF last'.request.body.sets = <<>> THEN answer = <<"InvalidArgument", "no_sets_given">>
            ELSE IF ~HasLog(w) THEN answer = <<"InvalidArgument", "no_workout_log">>
            ELSE answer = <<"ok", "ok">>]_vars

\* C9 witness: checks 2 to 5 all fail (exercise 99 is unknown and not linked,
\* no sets, no log); the answer is that of check 2.
C9_Witness ==
    /\ last.op = "logSets"
    /\ last.request = [workout_id |-> 1, exercise_id |-> 99, body |-> SetsRequest(<<>>)]
    /\ workout_logs = <<>>
    /\ last.status = 404
    /\ last.detail = "not_part_of_workout"

\* C10: at one instant and on one store, the three workout_frequency buckets
\* of summary are the same for every window of 1..365 days.
C10_FrequencyIndependentOfWindow ==
    \A user_id \in users : \A d1, d2 \in {1, 7, 30, 90, 365} :
        Summary(user_id, d1).workout_frequency = Summary(user_id, d2).workout_frequency

\* The logs summary(user_id, days) is to count: those of the user's workouts
\* performed at or after now - days.
CountedLogs(user_id, days) ==
    {l \in Range(workout_logs) :
        /\ \E w \in Range(workouts) : w.id = l.workout_id /\ w.user_id = user_id
        /\ l.performed_at >= now - days}

\* The sets of the given logs.
CountedSets(logs) ==
    {es \in Range(exercise_sets) : \E l \in logs : l.id = es.workout_log_id}

RECURSIVE TotalDuration(_)
TotalDuration(logs) ==
    IF logs = {} THEN 0
    ELSE LET l == CHOOSE x \in logs : TRUE
         IN  l.duration_minutes + TotalDuration(logs \ {l})

RECURSIVE TotalReps(_)
TotalReps(sets) ==
    IF sets = {} THEN 0
    ELSE LET es == CHOOSE x \in sets : TRUE
         IN  (IF es.reps = None THEN 0 ELSE es.reps[1]) + TotalReps(sets \ {es})

OwnsWorkout(user_id) == \E w \in Range(workouts) : w.user_id = user_id

\* The totals of a summary body are those of the counted logs and their sets.
TotalsAsCounted(body, user_id, days) ==
    LET logs == CountedLogs(user_id, days)
        sets == CountedSets(logs)
    IN  /\ body.total_workouts = Cardinality(logs)
        /\ body.total_duration_minutes = TotalDuration(logs)
        /\ body.total_sets = Cardinality(sets)
        /\ body.total_reps = TotalReps(sets)
        /\ body.total_exercises = Cardinality({es.exercise_id : es \in sets})

\* C11: for an existing user with workouts and a window of 1..365 days,
\* summary succeeds and its totals are those of the user's logs performed at
\* or after now - windowDays: their number, the sum of their durations, the
\* number of their sets, the sum of the sets' reps (null as 0) and the number
\* of distinct exercise ids among the sets.
C11_SummaryCountsWindow ==
    [][(/\ Served("summary")
        /\ last'.request.days \in 1..365
        /\ last'.request.user_id \in users
        /\ OwnsWorkout(last'.request.user_id))
       => /\ last'.status = 200
          /\ TotalsAsCounted(last'.body, last'.request.user_id, last'.request.days)]_vars

\* C12: summary for an existing user who owns no workout returns all totals
\* and the calories as 0, three frequency buckets of 0 and an empty
\* exercise_progress, whatever the store holds for other users.
C12_NoWorkoutsAllZero ==
    [][(/\ Served("summary")
        /\ last'.request.days \in 1..365
        /\ last'.request.user_id \in users
        /\ ~OwnsWorkout(last'.request.user_id))
       => /\ last'.status = 200
          /\ last'.body =
                [user_id |-> last'.request.user_id,
                 total_workouts |-> 0, total_exercises |-> 0, total_sets |-> 0,
                 total_reps |-> 0, total_duration_minutes |-> 0,
                 estimated_calories_burned |-> 0,
                 workout_frequency |-> [last_7_days |-> 0, last_30_days |-> 0, last_90_days |-> 0],
                 exercise_progress |-> <<>>]]_vars

\* C12 witness: the summary of u2, who owns no workout, while u1 has a
\* workout with a log and sets.
C12_Witness ==
    /\ last.op = "summary"
    /\ last.request.user_id = "u2"
    /\ last.status = 200
    /\ workouts = SoloWorkouts
    /\ workout_logs # <<>>
    /\ exercise_sets # <<>>

\* C13: in every summary result, estimated_calories_burned (in hundredths) is
\* 13 * total_duration_minutes / 2.
C13_CaloriesFromDuration ==
    [][(Served("summary") /\ last'.status = 200) =>
        2 * last'.body.estimated_calories_burned = 13 * 100 * last'.body.total_duration_minutes]_vars

\* C13 witness: a summary over logs of 30 and 45 minutes: 487.50 calories.
C13_Witness ==
    /\ last.op = "summary"
    /\ last.status = 200
    /\ last.body.total_duration_minutes = 75
    /\ last.body.estimated_calories_burned = 48750

\* The log a set belongs to.
LogOfSet(es) == CHOOSE l \in Range(workout_logs) : l.id = es.workout_log_id

\* C14: the progression of a successful exerciseProgress is ordered by
\* non-decreasing performed-at of the sets' logs and has exactly one entry per
\* ExerciseSet of the exercise in the user's logs within the window; its
\* length is total_sets.
C14_ProgressionOrdered ==
    [][(Served("exerciseProgress") /\ last'.status = 200) =>
        LET progression == last'.body.progression
            n == Len(progression)
            sets == {es \in CountedSets(CountedLogs(last'.request.user_id, last'.request.days)) :
                        es.exercise_id = last'.request.exercise_id}
        IN  /\ n = Cardinality(sets)
            /\ n = last'.body.total_sets
            /\ \A i, j \in 1..n : i < j => progression[i].date <= progression[j].date
            /\ \E f \in [1..n -> sets] :
                  /\ \A i, j \in 1..n : i # j => f[i] # f[j]
                  /\ \A k \in 1..n :
                        /\ progression[k].date = LogOfSet(f[k]).performed_at
                        /\ progression[k].set_number = f[k].set_number
                        /\ progression[k].reps = (IF f[k].reps = None THEN 0 ELSE f[k].reps[1])]_vars

\* C14 witness: a progression of the sets of exercise 1 from two logs of
\* different days, the earlier log's set first.
C14_Witness ==
    /\ last.op = "exerciseProgress"
    /\ last.status = 200
    /\ Len(last.body.progression) >= 2
    /\ last.body.progression[1].date < last.body.progression[Len(last.body.progression)].date

\* C15: a getLogs call that directly follows a getLogs call for the same
\* workout, with no write between them, returns the same output.
C15_GetLogsRepeatable ==
    [][(/\ last.op = "getLogs"
        /\ last'.op = "getLogs"
        /\ last'.request = last.request
        /\ store' = store)
       => (last'.status = last.status /\ last'.body = last.body)]_vars

\* C16: a successful getLogs returns every log of the workout and no other,
\* by performed-at descending, each with exactly the sets that reference it,
\* in the order the sets were inserted.
C16_GetLogsComplete ==
    [][(Served("getLogs") /\ last'.status = 200) =>
        LET body == last'.body
            mine == {l \in Range(workout_logs) : l.workout_id = last'.request.workout_id}
        IN  /\ Len(body) = Cardinality(mine)
            /\ {body[k].log_id : k \in DOMAIN body} = {l.id : l \in mine}
            /\ \A i, j \in DOMAIN body : i < j => body[i].performed_at >= body[j].performed_at
            /\ \A k \in DOMAIN body :
                  LET inserted == SelectSeq(exercise_sets,
                                      LAMBDA es : es.workout_log_id = body[k].log_id)
                  IN  [i \in DOMAIN body[k].exercise_sets |-> body[k].exercise_sets[i].set_id]
                         = [i \in DOMAIN inserted |-> inserted[i].id]]_vars

\* The exercise of the catalog with the given id.
CatalogExercise(id) == CHOOSE ex \in Range(exercises) : ex.id = id

\* The exercise needs no equipment or one whose name is among names.
Qualifies(ex, names) ==
    \/ ex.equipment_id = None
    \/ \E eq \in equipment : eq.id = ex.equipment_id[1] /\ eq.name \in names

\* C17: when generate is given an equipment filter, every exercise of a
\* generated workout has no equipment or one whose name is in the supplied
\* set; and if (for an existing user and a valid goal) no exercise of the
\* catalog qualifies, generate fails with InvalidArgument and writes nothing.
C17_EquipmentFilterRespected ==
    [][(Served("generate") /\ last'.request.equipment # None) =>
        LET names == last'.request.equipment[1]
        IN  /\ last'.status = 200 =>
                 \A k \in DOMAIN last'.body.exercises :
                    Qualifies(CatalogExercise(last'.body.exercises[k].exercise_id), names)
            /\ (/\ last'.request.user_id \in users
                /\ lower(last'.request.goal) \in valid_goals
                /\ \A ex \in Range(exercises) : ~Qualifies(ex, names))
               => /\ ErrorKind(last'.status) = "InvalidArgument"
                  /\ UNCHANGED <<workouts, workout_exercises>>]_vars

\* The filtered catalog of a generate request, as a set: every exercise when
\* the equipment list is null or empty, the qualifying ones otherwise.
Eligible(request) ==
    IF request.equipment = None \/ request.equipment = <<{}>>
    THEN Range(exercises)
    ELSE {ex \in Range(exercises) : Qualifies(ex, request.equipment[1])}

\* The bucket of a muscle group in the filtered catalog.
Bucket(request, muscle) ==
    {ex \in Eligible(request) :
        (IF ex.primary_muscle = None THEN "general" ELSE ex.primary_muscle[1]) = muscle}

\* 1 if the filtered catalog has more than 5 muscle groups, else 2.
PerGroup(request) ==
    LET groups == {IF ex.primary_muscle = None THEN "general" ELSE ex.primary_muscle[1] :
                      ex \in Eligible(request)}
    IN  IF Cardinality(groups) > 5 THEN 1 ELSE 2

LesserOf(a, b) == IF a <= b THEN a ELSE b

\* C18: in every generated workout each of chest, back, legs, shoulders, arms
\* contributes at least min(k, size of its bucket in the filtered catalog)
\* exercises.
C18_MajorGroupsCovered ==
    [][(Served("generate") /\ last'.status = 200) =>
        \A muscle \in {"chest", "back", "legs", "shoulders", "arms"} :
            Cardinality({k \in DOMAIN last'.body.exercises :
                            last'.body.exercises[k].primary_muscle = <<muscle>>})
                >= LesserOf(PerGroup(last'.request),
                            Cardinality(Bucket(last'.request, muscle)))]_vars

\* C18 witness: from the wide catalog filtered to Barbell (four groups, so
\* k = 2) a workout with both chest exercises; and the full wide catalog has
\* six groups (k = 1).
C18_Witness ==
    /\ exercises = CatalogWide
    /\ last.op = "generate"
    /\ last.status = 200
    /\ last.request.equipment = Some({"Barbell"})
    /\ PerGroup(last.request) = 2
    /\ Cardinality({k \in DOMAIN last.body.exercises :
                       last.body.exercises[k].primary_muscle = Some("chest")}) = 2

\* The number of exercises the major groups contribute.
RECURSIVE MajorCount(_, _)
MajorCount(request, muscles) ==
    IF muscles = {} THEN 0
    ELSE LET muscle == CHOOSE x \in muscles : TRUE
         IN  LesserOf(PerGroup(request), Cardinality(Bucket(request, muscle)))
                + MajorCount(request, muscles \ {muscle})

\* C19: with targetCount = max(5, duration div 10) and m the number picked
\* from the major groups, a generated workout has
\* max(m, min(targetCount, size of the filtered catalog)) exercises.
C19_ExerciseCount ==
    [][(Served("generate") /\ last'.status = 200) =>
        LET tenths == last'.request.duration_minutes[1] \div 10
            targetCount == IF tenths > 5 THEN tenths ELSE 5
            m == MajorCount(last'.request, {"chest", "back", "legs", "shoulders", "arms"})
            available == LesserOf(targetCount, Cardinality(Eligible(last'.request)))
        IN  Len(last'.body.exercises) = (IF m > available THEN m ELSE available)]_vars

\* C19 witness: seven exercises for 70 minutes from the wide catalog, where
\* the major groups give five.
C19_Witness ==
    /\ exercises = CatalogWide
    /\ last.op = "generate"
    /\ last.status = 200
    /\ last.request.duration_minutes = Some(70)
    /\ MajorCount(last.request, {"chest", "back", "legs", "shoulders", "arms"}) = 5
    /\ Len(last.body.exercises) = 7

\* C20: a successful generate adds exactly one Workout, owned by the user and
\* with the lower-cased goal, and exactly one WorkoutExercise row per exercise
\* of the returned list, in its order, each with the prescription of the goal.
C20_GeneratePersists ==
    [][(Served("generate") /\ last'.status = 200) =>
        LET n == Len(workouts)
            r == Len(workout_exercises)
            goal == lower(last'.request.goal)
            added == SubSeq(workout_exercises', r + 1, Len(workout_exercises'))
            fixed == CASE goal = "strength" -> <<5, 5, 180>>
                       [] goal = "hypertrophy" -> <<4, 10, 90>>
                       [] goal = "endurance" -> <<3, 15, 60>>
                       [] goal = "weight_loss" -> <<3, 12, 45>>
                       [] goal = "general" -> <<3, 10, 90>>
        IN  /\ Len(workouts') = n + 1
            /\ SubSeq(workouts', 1, n) = workouts
            /\ workouts'[n + 1].user_id = last'.request.user_id
            /\ workouts'[n + 1].goal = goal
            /\ workouts'[n + 1].id = last'.body.workout_id
            /\ SubSeq(workout_exercises', 1, r) = workout_exercises
            /\ [k \in DOMAIN added |-> added[k].exercise_id]
                  = [k \in DOMAIN last'.body.exercises |-> last'.body.exercises[k].exercise_id]
            /\ \A k \in DOMAIN added :
                  /\ added[k].workout_id = workouts'[n + 1].id
                  /\ <<added[k].target_sets, added[k].target_reps, added[k].rest_seconds>>
                        = <<Some(fixed[1]), Some(fixed[2]), Some(fixed[3])>>]_vars

\* C20 witness: a second workout generated for goal "Strength": stored as
\* strength with rows of 5 sets, 5 reps, 180 s.
C20_Witness ==
    /\ last.op = "generate"
    /\ last.status = 200
    /\ last.request.goal = "Strength"
    /\ Len(workouts) = 2
    /\ workouts[2].goal = "strength"
    /\ workout_exercises[Len(workout_exercises)].workout_id = 2
    /\ workout_exercises[Len(workout_exercises)].target_sets = Some(5)
    /\ workout_exercises[Len(workout_exercises)].rest_seconds = Some(180)

\* The seconds of a sequence of WorkoutExercise rows: the sum of
\* target_sets * (target_reps * 3 + rest_seconds).
RECURSIVE PrescribedSeconds(_)
PrescribedSeconds(rows) ==
    IF rows = <<>> THEN 0
    ELSE rows[1].target_sets[1] * (rows[1].target_reps[1] * 3 + rows[1].rest_seconds[1])
            + PrescribedSeconds(Tail(rows))

\* C21: the estimated duration a successful generate or createCustom returns
\* is floor(sum of targetSets * (targetReps * 3 + restSeconds) / 60) over the
\* WorkoutExercise rows persisted for the new workout.
C21_EstimatedDuration ==
    [][(last'.op \in {"generate", "createCustom"} /\ last'.status = 200) =>
        LET persisted == SelectSeq(workout_exercises',
                            LAMBDA we : we.workout_id = last'.body.workout_id)
        IN  /\ persisted # <<>>
            /\ last'.body.estimated_duration = PrescribedSeconds(persisted) \div 60]_vars

\* C21 witness: seven strength exercises of 975 s each: floor(6825 / 60) = 113
\* minutes, where flooring each exercise first would give 112.
C21_Witness ==
    /\ last.op = "generate"
    /\ last.status = 200
    /\ last.body.goal = "strength"
    /\ Len(last.body.exercises) = 7
    /\ last.body.estimated_duration = 113

\* C22: createCustom for an existing user with a non-empty list of specs
\* whose exercise ids all exist (repeats allowed) and none of whose fields is
\* null succeeds and persists one WorkoutExercise row per spec, in input
\* order, with the spec's target_sets/target_reps/rest_seconds or 3/10/90.
C22_CustomSucceedsWhenAllExist ==
    [][(/\ last'.op = "createCustom"
        /\ last'.request.user_id \in users
        /\ last'.request.exercises # <<>>
        /\ \A k \in DOMAIN last'.request.exercises :
              LET item == last'.request.exercises[k]
              IN  /\ "exercise_id" \in DOMAIN item
                  /\ \A field \in DOMAIN item : item[field] # None
                  /\ item.exercise_id[1] \in CatalogIds)
       => LET items == last'.request.exercises
              r == Len(workout_exercises)
              added == SubSeq(workout_exercises', r + 1, Len(workout_exercises'))
              given(item, field, default) ==
                  IF field \in DOMAIN item THEN item[field] ELSE <<default>>
          IN  /\ last'.status = 200
              /\ Len(added) = Len(items)
              /\ \A k \in DOMAIN added :
                    /\ added[k].workout_id = last'.body.workout_id
                    /\ added[k].exercise_id = items[k].exercise_id[1]
                    /\ added[k].target_sets = given(items[k], "target_sets", 3)
                    /\ added[k].target_reps = given(items[k], "target_reps", 10)
                    /\ added[k].rest_seconds = given(items[k], "rest_seconds", 90)]_vars

\* C23: the goal of every persisted Workout is one of strength, hypertrophy,
\* endurance, weight_loss, general.
C23_PersistedGoalsValid ==
    \A w \in Range(workouts) :
        w.goal \in {"strength", "hypertrophy", "endurance", "weight_loss", "general"}

\* C24: the set_number values of the ExerciseSets of each (WorkoutLog,
\* exercise) pair are exactly 1..k, k being the number of sets of the pair.
C24_SetNumbersSequential ==
    \A l \in Range(workout_logs) : \A e \in CatalogIds :
        LET group == {es \in Range(exercise_sets) :
                         es.workout_log_id = l.id /\ es.exercise_id = e}
        IN  /\ {es.set_number : es \in group} = 1..Cardinality(group)
            /\ \A a, b \in group : a # b => a.set_number # b.set_number

\* The sum of the weights of a set of ExerciseSets.
RECURSIVE TotalWeight(_)
TotalWeight(sets) ==
    IF sets = {} THEN 0
    ELSE LET es == CHOOSE x \in sets : TRUE
         IN  es.weight_kg[1] + TotalWeight(sets \ {es})

\* The per-exercise progress of a summary body is that of the counted sets:
\* one entry per exercise, total_sets and total_reps over all its sets,
\* max_weight_kg and avg_weight_kg (sum over count) over its sets whose weight
\* is neither null nor zero, 0 for both without such a set, max >= avg, and
\* the entries by total_sets descending.
ProgressAsCounted(body, user_id, days) ==
    LET progress == body.exercise_progress
        sets == CountedSets(CountedLogs(user_id, days))
    IN  /\ {progress[k].exercise_id : k \in DOMAIN progress} = {es.exercise_id : es \in sets}
        /\ \A i, j \in DOMAIN progress :
              /\ i # j => progress[i].exercise_id # progress[j].exercise_id
              /\ i < j => progress[i].total_sets >= progress[j].total_sets
        /\ \A k \in DOMAIN progress :
              LET entry == progress[k]
                  mine == {es \in sets : es.exercise_id = entry.exercise_id}
                  weighted == {es \in mine : es.weight_kg # None /\ es.weight_kg # <<0>>}
              IN  /\ entry.total_sets = Cardinality(mine)
                  /\ entry.total_reps = TotalReps(mine)
                  /\ IF weighted = {}
                     THEN entry.max_weight_kg = 0 /\ entry.avg_weight_kg = <<0, 1>>
                     ELSE /\ \E es \in weighted : entry.max_weight_kg = es.weight_kg[1]
                          /\ \A es \in weighted : entry.max_weight_kg >= es.weight_kg[1]
                          /\ entry.avg_weight_kg = <<TotalWeight(weighted), Cardinality(weighted)>>
                  /\ entry.max_weight_kg * entry.avg_weight_kg[2] >= entry.avg_weight_kg[1]

C26_SetsBelongToWorkout ==
    \A es \in Range(exercise_sets) :
        \E l \in Range(workout_logs) :
            /\ l.id = es.workout_log_id
            /\ \E w \in Range(workouts) : w.id = l.workout_id
            /\ \E we \in Range(workout_exercises) :
                  we.workout_id = l.workout_id /\ we.exercise_id = es.exercise_id

\* C26 witness: sets were logged for exercise 2 of a workout that has no row
\* for exercise 1, while another workout has one.
C26_Witness ==
    /\ last.op = "logSets"
    /\ last.status = 200
    /\ last.request.exercise_id = 2
    /\ exercise_sets # <<>>
    /\ \E l \in Range(workout_logs) :
          /\ l.id = exercise_sets[1].workout_log_id
          /\ l.workout_id = last.request.workout_id
          /\ \A we \in Range(workout_exercises) :
                we.workout_id = l.workout_id => we.exercise_id # 1
    /\ \E we \in Range(workout_exercises) : we.exercise_id = 1

----------------------------------------------------------------------------
\* Two requests in flight at a time, their statements interleaved, from an
\* empty store on the narrow catalog; logSession adds and commits one row.
\* Either request may write; reads do not affect one another and are served
\* as one request at a time.

Readers == {"r2"}

InitInterleaved ==
    /\ exercises = CatalogNarrow
    /\ EmptyStore

BeginGenerate ==
    \E r \in Requests :
        generate_workout_flush(r, GenerateRequest("u1", "Strength", Some({"Barbell"}), Some(45)))

Add == \E r \in Requests : db_add(r)

CommitGenerate == \E r \in Requests : generate_workout_commit(r)

CloseWithoutCommit == \E r \in Requests : close_without_commit(r)

\* One session of workout 1 is logged.
InterleavedLogWorkout == workout_logs = <<>> /\ log_workout(1, LogRequest(30))

BeginLogExerciseSets ==
    \E r \in Requests, sets \in {OneSet, TwoSets} :
        log_exercise_sets_begin(r, 1, 1, SetsRequest(sets))

CommitLogExerciseSets == \E r \in Requests : log_exercise_sets_commit(r)

BeginHistory == \E r \in Readers : get_workout_history_begin(r, "u1", 20)

HistoryExercises == \E r \in Requests : get_workout_history_exercises(r)

HistoryLogs == \E r \in Requests : get_workout_history_logs(r)

BeginGetWorkoutLogs == \E r \in Readers : get_workout_logs_begin(r, 1)

GetWorkoutLogsSets == \E r \in Requests : get_workout_logs_sets(r)

Return == \E r \in Requests : return_result(r)

BeginSummary ==
    \E r \in Readers : get_progress_summary_begin(r, "u1", 30)

SummaryLogs == \E r \in Requests : get_progress_summary_logs(r)

SummarySets == \E r \in Requests : get_progress_summary_sets(r)

NextInterleaved ==
    \/ BeginGenerate
    \/ Add
    \/ CommitGenerate
    \/ CloseWithoutCommit
    \/ InterleavedLogWorkout
    \/ BeginLogExerciseSets
    \/ CommitLogExerciseSets
    \/ BeginHistory
    \/ HistoryExercises
    \/ HistoryLogs
    \/ BeginGetWorkoutLogs
    \/ GetWorkoutLogsSets
    \/ Return
    \/ BeginSummary
    \/ SummaryLogs
    \/ SummarySets

SpecInterleaved == InitInterleaved /\ [][NextInterleaved]_vars

\* The number of rows of the request that created the workout.
RequestedRows(workout_id) ==
    (CHOOSE pair \in db.requested : pair[1] = workout_id)[2]

\* Every entry of a history shows all the rows of the request that created
\* its workout, and no workout of a transaction that was rolled back.
WholeWorkouts(history) ==
    \A k \in DOMAIN history :
        /\ history[k].exercise_count = RequestedRows(history[k].workout_id)
        /\ Len(history[k].exercises) = RequestedRows(history[k].workout_id)
        /\ history[k].workout_id \notin db.rolled_back

\* Every log detail shows each committed batch of sets whole or not at all,
\* and no set outside the committed batches.
WholeBatches(details) ==
    \A k \in DOMAIN details :
        LET shown == {d.set_id : d \in Range(details[k].exercise_sets)}
        IN  /\ shown \subseteq UNION db.batches
            /\ \A batch \in db.batches : batch \subseteq shown \/ batch \cap shown = {}

\* The sizes a summary may count: the sums over the sets of batches.
RECURSIVE BatchTotal(_)
BatchTotal(batches) ==
    IF batches = {} THEN 0
    ELSE LET batch == CHOOSE b \in batches : TRUE
         IN  Cardinality(batch) + BatchTotal(batches \ {batch})

\* C27: whatever the interleaving, the committed tables hold a workout only
\* with all the rows of its creating request and show nothing of a
\* transaction that was closed without a commit; every history read so far
\* or returned shows whole workouts, every getLogs result whole batches of
\* sets, and every summary counts whole batches.
C27_WritesVisibleAtOnce ==
    /\ \A w \in Range(workouts) :
          /\ Cardinality({we \in Range(workout_exercises) : we.workout_id = w.id})
                = RequestedRows(w.id)
          /\ w.id \notin db.rolled_back
    /\ \A we \in Range(workout_exercises) :
          /\ we.workout_id \notin db.rolled_back
          /\ \E w \in Range(workouts) : w.id = we.workout_id
    /\ Len(exercise_sets) = BatchTotal(db.batches)
    /\ \A r \in Requests :
          LET session == db.session[r]
          IN  /\ session.op = "history" =>
                    /\ WholeWorkouts(session.result)
                    /\ session.found # None =>
                          Len(session.found[1]) = RequestedRows(Head(session.todo).id)
              /\ session.op = "getLogs" => WholeBatches(session.result)
    /\ (last.op = "history" /\ last.status = 200) => WholeWorkouts(last.body)
    /\ (last.op = "getLogs" /\ last.status = 200) => WholeBatches(last.body)
    /\ (last.op = "summary" /\ last.status = 200) =>
          \E counted \in SUBSET db.batches : last.body.total_sets = BatchTotal(counted)

\* C27 witness: a history that shows a workout of two rows has been returned
\* while the other request, which has flushed a second workout of the same
\* user and added one of its two rows, has not committed, and a transaction
\* has been rolled back or not.
C27_Witness ==
    /\ last.op = "history"
    /\ last.status = 200
    /\ Len(last.body) = 1
    /\ last.body[1].exercise_count = 2
    /\ \E r \in Requests :
          /\ db.session[r].pc = "adding"
          /\ db.session[r].op = "generate"
          /\ db.session[r].flushed[1].user_id = last.request.user_id
          /\ Len(db.session[r].added) = 1
          /\ Len(db.session[r].todo) = 1

----------------------------------------------------------------------------
\* Deleting a row under the ondelete rules of the foreign keys (models/),
\* which the cascades of the relationships repeat.  No request handler
\* deletes; the deletions are those of the store.

\* Mutant: the exercises of a deleted equipment are deleted with it.
exercises_equipment_id_ondelete_cascade == "CASCADE"

\* exercises.equipment_id: ForeignKey("equipment.id", ondelete="SET NULL")
exercises_equipment_id_ondelete == "SET NULL"

\* The tables after the rows named in gone (sets of ids by table) are deleted:
\*   workouts.user_id, goals.user_id                       ondelete CASCADE
\*   workout_exercises.workout_id, workout_logs.workout_id ondelete CASCADE
\*   workout_exercises.exercise_id, exercise_sets.exercise_id  ondelete CASCADE
\*   exercise_sets.workout_log_id                          ondelete CASCADE
\*   exercises.equipment_id                                ondelete SET NULL
Delete(gone) ==
    LET refers(ex) == ex.equipment_id # None /\ Val(ex.equipment_id) \in gone.equipment
        exercises_gone ==
            gone.exercises \cup
            (IF exercises_equipment_id_ondelete = "CASCADE"
             THEN {ex.id : ex \in {e \in Range(exercises) : refers(e)}}
             ELSE {})
        workouts_gone == gone.workouts \cup {w.id : w \in {x \in Range(workouts) : x.user_id \in gone.users}}
        logs_gone == gone.workout_logs \cup
                     {l.id : l \in {x \in Range(workout_logs) : x.workout_id \in workouts_gone}}
        kept == SelectSeq(exercises, LAMBDA ex : ex.id \notin exercises_gone)
    IN  /\ users' = users \ gone.users
        /\ goals' = {g \in goals : g.user_id \notin gone.users}
        /\ equipment' = {eq \in equipment : eq.id \notin gone.equipment}
        /\ exercises' = [k \in DOMAIN kept |->
                            IF refers(kept[k]) THEN [kept[k] EXCEPT !.equipment_id = None]
                            ELSE kept[k]]
        /\ workouts' = SelectSeq(workouts, LAMBDA w : w.id \notin workouts_gone)
        /\ workout_exercises' = SelectSeq(workout_exercises,
              LAMBDA we : we.workout_id \notin workouts_gone /\ we.exercise_id \notin exercises_gone)
        /\ workout_logs' = SelectSeq(workout_logs, LAMBDA l : l.id \notin logs_gone)
        /\ exercise_sets' = SelectSeq(exercise_sets,
              LAMBDA es : es.workout_log_id \notin logs_gone /\ es.exercise_id \notin exercises_gone)
        /\ UNCHANGED <<db, now, logged>>

NoneGone == [users |-> {}, equipment |-> {}, exercises |-> {}, workouts |-> {}, workout_logs |-> {}]

delete_user(id) ==
    /\ id \in users
    /\ Delete([NoneGone EXCEPT !.users = {id}])
    /\ last' = Response("delete", [table |-> "users", id |-> id], 200, "ok", None)

delete_equipment(id) ==
    /\ \E eq \in equipment : eq.id = id
    /\ Delete([NoneGone EXCEPT !.equipment = {id}])
    /\ last' = Response("delete", [table |-> "equipment", id |-> id], 200, "ok", None)

delete_exercise(id) ==
    /\ ExerciseById(id) # <<>>
    /\ Delete([NoneGone EXCEPT !.exercises = {id}])
    /\ last' = Response("delete", [table |-> "exercises", id |-> id], 200, "ok", None)

delete_workout(id) ==
    /\ WorkoutById(id) # <<>>
    /\ Delete([NoneGone EXCEPT !.workouts = {id}])
    /\ last' = Response("delete", [table |-> "workouts", id |-> id], 200, "ok", None)

delete_workout_log(id) ==
    /\ \E l \in Range(workout_logs) : l.id = id
    /\ Delete([NoneGone EXCEPT !.workout_logs = {id}])
    /\ last' = Response("delete", [table |-> "workout_logs", id |-> id], 200, "ok", None)

\* The store after logSession(1), logSession(2) and three logSets calls on
\* the seeded workouts.
SeededWorkoutLogs == <<
    [id |-> 1, workout_id |-> 1, performed_at |-> 0, duration_minutes |-> 30],
    [id |-> 2, workout_id |-> 2, performed_at |-> 0, duration_minutes |-> 30] >>

SeededExerciseSets == <<
    [id |-> 1, workout_log_id |-> 1, exercise_id |-> 1, set_number |-> 1,
     reps |-> Some(5), weight_kg |-> Some(20), rpe |-> None],
    [id |-> 2, workout_log_id |-> 1, exercise_id |-> 2, set_number |-> 1,
     reps |-> Some(5), weight_kg |-> Some(20), rpe |-> None],
    [id |-> 3, workout_log_id |-> 2, exercise_id |-> 1, set_number |-> 1,
     reps |-> Some(5), weight_kg |-> Some(20), rpe |-> None] >>

InitDelete ==
    /\ Quiescent
    /\ exercises = CatalogNarrow
    /\ workouts = SeededWorkouts
    /\ workout_exercises = SeededWorkoutExercises
    /\ workout_logs = SeededWorkoutLogs
    /\ exercise_sets = SeededExerciseSets
    /\ now = 0
    /\ last = NoRequest
    /\ logged = {1, 2}

DeleteUser == \E id \in UserRows : delete_user(id)

DeleteEquipment == \E id \in {1, 2} : delete_equipment(id)

DeleteExercise == \E id \in {1, 2, 3} : delete_exercise(id)

DeleteWorkout == \E id \in {1, 2} : delete_workout(id)

DeleteWorkoutLog == \E id \in {1, 2} : delete_workout_log(id)

NextDelete ==
    \/ DeleteUser
    \/ DeleteEquipment
    \/ DeleteExercise
    \/ DeleteWorkout
    \/ DeleteWorkoutLog

SpecDelete == InitDelete /\ [][NextDelete]_vars

\* No row references a row that does not exist.
ReferencesResolve ==
    /\ \A w \in Range(workouts) : w.user_id \in users
    /\ \A g \in goals : g.user_id \in users
    /\ \A ex \in Range(exercises) :
          ex.equipment_id = None \/ \E eq \in equipment : eq.id = Val(ex.equipment_id)
    /\ \A we \in Range(workout_exercises) :
          /\ WorkoutById(we.workout_id) # <<>>
          /\ ExerciseById(we.exercise_id) # <<>>
    /\ \A l \in Range(workout_logs) : WorkoutById(l.workout_id) # <<>>
    /\ \A es \in Range(exercise_sets) :
          /\ \E l \in Range(workout_logs) : l.id = es.workout_log_id
          /\ ExerciseById(es.exercise_id) # <<>>

\* C28: a delete removes the row; with a User go its Workouts and Goals, with
\* a Workout its WorkoutExercises and WorkoutLogs, with a WorkoutLog its
\* ExerciseSets, with an Exercise the WorkoutExercises and ExerciseSets that
\* reference it; with an Equipment no Exercise goes, and those that
\* referenced it have no equipment afterwards.  After the delete every
\* reference resolves.
C28_DeleteCascades ==
    [][last'.op = "delete" =>
        LET table == last'.request.table
            id == last'.request.id
        IN  /\ table = "users" =>
                /\ id \notin users'
                /\ \A w \in Range(workouts') : w.user_id # id
                /\ \A g \in goals' : g.user_id # id
            /\ table = "workouts" =>
                /\ \A w \in Range(workouts') : w.id # id
                /\ \A we \in Range(workout_exercises') : we.workout_id # id
                /\ \A l \in Range(workout_logs') : l.workout_id # id
            /\ table = "workout_logs" =>
                /\ \A l \in Range(workout_logs') : l.id # id
                /\ \A es \in Range(exercise_sets') : es.workout_log_id # id
            /\ table = "exercises" =>
                /\ \A ex \in Range(exercises') : ex.id # id
                /\ \A we \in Range(workout_exercises') : we.exercise_id # id
                /\ \A es \in Range(exercise_sets') : es.exercise_id # id
            /\ table = "equipment" =>
                /\ \A eq \in equipment' : eq.id # id
                /\ Len(exercises') = Len(exercises)
                /\ \A k \in DOMAIN exercises :
                      /\ exercises'[k].id = exercises[k].id
                      /\ exercises'[k].equipment_id =
                            (IF exercises[k].equipment_id = Some(id) THEN None
                             ELSE exercises[k].equipment_id)
            /\ ReferencesResolve']_vars

\* C28 witness: user u1 has been deleted while equipment 1 was already gone;
\* of the three sets the one of the other user's log is left, and the
\* exercises are all there, two of them without equipment.
C28_Witness ==
    /\ last.op = "delete"
    /\ last.request.table = "users"
    /\ last.request.id = "u1"
    /\ users = {"u2"}
    /\ goals = {[id |-> 2, user_id |-> "u2"]}
    /\ Len(workouts) = 1
    /\ Len(workout_exercises) = 1
    /\ Len(workout_logs) = 1
    /\ exercise_sets = SubSeq(SeededExerciseSets, 3, 3)
    /\ Len(exercises) = 3
    /\ exercises[1].equipment_id = None
    /\ exercises[2].equipment_id = Some(2)
    /\ exercises[3].equipment_id = None

----------------------------------------------------------------------------
\* Every operation of the API, for two users, from an empty store on the
\* narrow catalog.

ApiGenerate == generate_workout(GenerateRequest("u1", "Strength", Some({"Barbell"}), Some(45)))

ApiCreateCustom ==
    \E request \in {CustomRequest("u2", "general", <<FullItem(1), Item(2)>>),
                    CustomRequest("u2", "general", <<>>)} :
        create_custom_workout(request)

ApiLogWorkout == \E workout_id \in {1, 2} : log_workout(workout_id, LogRequest(30))

ApiLogExerciseSets ==
    \E workout_id \in {1, 2, 9} : log_exercise_sets(workout_id, 1, SetsRequest(OneSet))

ApiGetWorkoutHistory == \E user_id \in UserIds : get_workout_history(user_id, 20)

ApiGetWorkoutLogs == \E workout_id \in {1, 9} : get_workout_logs(workout_id)

ApiGetProgressSummary == \E user_id \in UserRows : get_progress_summary(user_id, 30)

ApiGetExerciseProgress == \E user_id \in UserRows : get_exercise_progress(user_id, 1, 30)

ApiGetExercises ==
    \E primary_muscle \in {None, Some("chest")}, equipment_name \in {None, Some("barbell"), Some("rope")} :
        get_exercises(primary_muscle, equipment_name)

ApiGetExerciseById == \E exercise_id \in {3, 99} : get_exercise_by_id(exercise_id)

NextApi ==
    \/ ApiGenerate
    \/ ApiCreateCustom
    \/ ApiLogWorkout
    \/ ApiLogExerciseSets
    \/ ApiGetWorkoutHistory
    \/ ApiGetWorkoutLogs
    \/ ApiGetProgressSummary
    \/ ApiGetExerciseProgress
    \/ ApiGetExercises
    \/ ApiGetExerciseById

SpecApi == Init /\ [][NextApi]_vars

\* Everything the user owns: the workouts, their rows and logs, and the sets
\* of those logs.
OwnedBy(user_id) ==
    LET mine == {w.id : w \in {x \in Range(workouts) : x.user_id = user_id}}
        my_logs == {l.id : l \in {x \in Range(workout_logs) : x.workout_id \in mine}}
    IN  <<SelectSeq(workouts, LAMBDA w : w.id \in mine),
          SelectSeq(workout_exercises, LAMBDA we : we.workout_id \in mine),
          SelectSeq(workout_logs, LAMBDA l : l.id \in my_logs),
          SelectSeq(exercise_sets, LAMBDA es : es.workout_log_id \in my_logs)>>

\* What the three reads return for the user: the histories with limit 20;
\* for summary over 7 and 30 days, the rows its queries return, from which
\* and from the clock and the catalog SummaryBody builds the result, and the
\* outcomes of its comparison; the results of exerciseProgress for every
\* exercise of the catalog over 30 days.
ResultsFor(user_id) ==
    <<Histories(user_id, 20),
      [days \in {7, 30} |->
          <<WorkoutsOfUser(user_id) = <<>>,
            LogsInWindow(user_id, days),
            SetsOfLogs(LogsInWindow(user_id, days)),
            CompareOutcomes(user_id, days)>>],
      [exercise_id \in CatalogIds |->
          {ExerciseProgress(exercise_id, sets) :
              sets \in SetsByPerformedAt(LogsInWindow(user_id, 30), exercise_id)}]>>

\* C29: a step that leaves everything a user owns, the catalog and the users
\* as they are leaves the results of history, summary and exerciseProgress
\* for that user as they are (as it does when it writes no row at all: the
\* results are computed from the tables).
C29_ReadsDependOnOwnData ==
    [][\A user_id \in UserRows :
          (OwnedBy(user_id)' = OwnedBy(user_id) /\ exercises' = exercises /\ users' = users
              /\ now' = now)
             => (store' = store \/ ResultsFor(user_id)' = ResultsFor(user_id))]_vars

\* C29 witness: sets have just been logged for a workout of u2, while u1 has
\* a workout with a logged session and a set.
C29_Witness ==
    /\ last.op = "logSets"
    /\ last.status = 200
    /\ \E w \in Range(workouts) : w.id = last.request.workout_id /\ w.user_id = "u2"
    /\ \E w \in Range(workouts), l \in Range(workout_logs), es \in Range(exercise_sets) :
          w.user_id = "u1" /\ l.workout_id = w.id /\ es.workout_log_id = l.id

IsPrefix(before, after) ==
    Len(before) <= Len(after) /\ SubSeq(after, 1, Len(before)) = before

\* C30: a read leaves every table as it is; a successful write leaves every
\* row there is as it is and adds rows of its own kinds only: generate and
\* createCustom a Workout and WorkoutExercises, logSession a WorkoutLog,
\* logSets ExerciseSets.  No operation changes users, goals, equipment or the
\* catalog.
C30_AppendOnly ==
    [][/\ last'.op \in {"listExercises", "getExercise", "history", "getLogs", "summary",
                        "exerciseProgress"}
          => (store' = store /\ exercises' = exercises)
       /\ (last'.op \in WriteOps /\ last'.status = 200 /\ last' # last) =>
            /\ IsPrefix(workouts, workouts')
            /\ IsPrefix(workout_exercises, workout_exercises')
            /\ IsPrefix(workout_logs, workout_logs')
            /\ IsPrefix(exercise_sets, exercise_sets')
            /\ last'.op \in {"generate", "createCustom"} =>
                  /\ Len(workouts') = Len(workouts) + 1
                  /\ UNCHANGED <<workout_logs, exercise_sets>>
            /\ last'.op = "logSession" =>
                  /\ Len(workout_logs') = Len(workout_logs) + 1
                  /\ UNCHANGED <<workouts, workout_exercises, exercise_sets>>
            /\ last'.op = "logSets" =>
                  /\ Len(exercise_sets') > Len(exercise_sets)
                  /\ UNCHANGED <<workouts, workout_exercises, workout_logs>>
       /\ UNCHANGED <<users, goals, equipment, exercises>>]_vars

\* C30 witness: a second batch of sets has been logged for the same log and
\* exercise; the sets of the first are still there.
C30_Witness ==
    /\ last.op = "logSets"
    /\ last.status = 200
    /\ Len(exercise_sets) >= 2
    /\ exercise_sets[1].workout_log_id = exercise_sets[Len(exercise_sets)].workout_log_id
    /\ exercise_sets[1].exercise_id = exercise_sets[Len(exercise_sets)].exercise_id
    /\ Len(workouts) = 2

====
